---- MODULE Spec2Model ----
(***************************************************************************)
(* Model of the ESP32 OpenCPN <-> NMEA2000 <-> SeaTalk-1 autopilot bridge  *)
(* (src/autopilotcontroller.ino): the identifier codec, the fast-packet    *)
(* sender, the 126208 command-group reassembler, the pilot mode state      *)
(* machine and the SeaTalk keystroke encoder.                              *)
(*                                                                         *)
(* Bytes are integers 0..255.  C arrays are 0-based, sequences here are    *)
(* 1-based: b[i] of the source is b[i+1] below.                            *)
(*                                                                         *)
(* Angles.  The source keeps headings as float degrees that all come from  *)
(* 16-bit raw values q in units of 1e-4 rad (deg = q*0.0001*180/pi).  The  *)
(* model keeps a heading as the integer q*1000 (units of 1e-7 rad), so     *)
(* 360 degrees is Deg360 = 62831853 and subtracting 360 degrees stays an   *)
(* integer.  NAN is the value NaN, below every heading.                    *)
(***************************************************************************)
EXTENDS Integers, Sequences, FiniteSets, TLC

VARIABLES
    currentMode,      \* PilotMode currentMode
    headingRef,       \* HeadingRef headingRef
    hdg_deg_now,      \* float hdg_deg_now (from 127250)
    locked_hdg_deg,   \* float locked_hdg_deg
    xte_nm,           \* float xte_nm (from 129283), kept in 1/1000 nm
    cog_mag_deg,      \* float cog_mag_deg (from 129026), kept like a heading
    sog_kn,           \* float sog_kn, kept as the raw speed in 0.01 m/s
    awa_deg,          \* float awa_deg (from 130306), kept like a heading
    aws_kn,           \* float aws_kn, kept as the raw speed in 0.01 m/s
    stw_kn,           \* float stw_kn (from 128259), kept as the raw speed in 0.01 m/s
    since,            \* now - lastRM, - lastAP, ... of loop(): the time since each
                      \* periodic sender ran, in ms (kept up to just past its period)
    grp,              \* FPBuf grp, the single command reassembly buffer
    st_tx,            \* SeaTalk datagrams written while handling the last event
    n2k_tx,           \* CAN frames handed to twai_tx while handling the last event
    calls,            \* history: arguments of each handle_126208_full call of the last event
    fed,              \* history: the commands feed_126208 handed over in the last event
    steps,            \* history: selector/button patterns applied in the last event
    asm,              \* history: in-order run of the frames feed_126208 was given
    rx,               \* history: the frame received in the last event (<<>> if none)
    rx_run,           \* history: in-order run of the 126208 frames seen on the bus
    src_run,          \* history: the same, kept for each source address apart
    prev,             \* history: mode, locked heading and assembly before the last event
    millis,           \* millis() when the event is handled
    id_in, id_out,    \* identifier codec: inputs of n2k_id and the identifier built
    fn_in, fn_out,    \* a function or a sketch studied on its own: the latest call
                      \* or step, and what it built or the state it left
    fp_payload, fp_frames, fp_pos, fp_out   \* fast-packet round trip

vars == << currentMode, headingRef, hdg_deg_now, locked_hdg_deg,
           xte_nm, cog_mag_deg, sog_kn, awa_deg, aws_kn, stw_kn, since, grp,
           st_tx, n2k_tx,
           calls, fed, steps, asm, rx, rx_run, src_run, prev, millis,
           id_in, id_out, fn_in, fn_out, fp_payload, fp_frames, fp_pos, fp_out >>

----------------------------------------------------------------------------
\* Enumerations and constants of the source

SM_STANDBY == 0
SM_AUTO == 1
SM_WIND == 2
SM_TRACK == 3

PM_STBY == 0
PM_AUTO == 1
PM_WIND == 2
PM_TRACK == 3
PilotModes == {PM_STBY, PM_AUTO, PM_WIND, PM_TRACK}

REF_TRUE == 0
REF_MAG == 1

NaN == -1

\* float dtw_nm = 0.0f, never assigned
dtw_nm == 0

\* the timers of loop(), named after lastRM, lastAP, lastST, lastAnnounce, lastHB, lastPI
Timers == {"RM", "AP", "ST", "Announce", "HB", "PI"}
Deg360 == 62831853

PGN_ADDR_CLAIM == 60928
PGN_ISO_REQUEST == 59904
PGN_CMD_GROUP == 126208
PGN_PRODUCT_INFO == 126996
PGN_VESSEL_HEAD == 127250
PGN_WIND == 130306
PGN_STW == 128259
PGN_COGSOG == 129026
PGN_XTE == 129283
PGN_NAVDATA == 129284
PGN_ROUTE_WP == 129285
PGN_ISO_ACK == 59392
PGN_PGN_LIST == 126464
PGN_HEARTBEAT == 126993
PGN_CONFIG_INFO == 126998
PGN_AP_STATUS == 127237
PGN_RM_KEYPAD_HEART == 65374
PGN_RM_PILOT_MODE == 65379
PGN_RM_LOCKED_HEADING == 65360

SA == 33
N2K_MFG == 1851
N2K_IND_GR == 4
N2K_DEV_CLASS == 40
N2K_FUNC == 135
N2K_FUNC_INST == 0
N2K_DEV_INST == 0
N2K_AAC == 1
N2K_UNIQUE == 228037
N2K_VERSION == 1301
PRODUCT_CODE == 20001
CERT_LEVEL == 1
LEN_UNITS_50mA == 3

ST_CODE_AUTO == 1
ST_CODE_STANDBY == 2
ST_CODE_PLUS1 == 7
ST_CODE_PLUS10 == 8
ST_CODE_MINUS1 == 5
ST_CODE_MINUS10 == 6
ST_SENDER_NIB == 2

GRP_BUF_SIZE == 120

----------------------------------------------------------------------------
\* Small helpers

Min2(a, b) == IF a < b THEN a ELSE b

\* F applied to the value of v, which is worked out once
Bind(v, F(_)) == CHOOSE r \in {F(x) : x \in {v}} : TRUE

MinOf(S) == CHOOSE x \in S : \A y \in S : x <= y

Fill(n, v) == [i \in 1..n |-> v]

Take(s, n) == SubSeq(s, 1, Min2(n, Len(s)))

Drop(s, n) == SubSeq(s, n + 1, Len(s))

\* memcpy(dst + at, src, len): dst with len bytes of src written from offset at
Poke(dst, at, src) ==
    Bind(<< dst, src >>,
         LAMBDA a : [i \in 1..Len(a[1]) |->
                        IF i > at /\ i <= at + Len(a[2]) THEN a[2][i - at] ELSE a[1][i]])

put_u16le(v) == << v % 256, (v \div 256) % 256 >>

put_u32le(v) == << v % 256, (v \div 256) % 256, (v \div 65536) % 256, (v \div 16777216) % 256 >>

----------------------------------------------------------------------------
\* N2K helpers

\* Variant of n2k_id with the PDU1 test written PF <= 240
n2k_id_pf_off_by_one(prio, pgn, src) ==
    LET PF == (pgn \div 256) % 256
        PDU_SPEC == IF PF <= 240 THEN 255 ELSE pgn % 256
        DP == (pgn \div 65536) % 2
    IN  (prio % 8) * 67108864 + DP * 16777216 + PF * 65536 + PDU_SPEC * 256 + src

\* n2k_id(prio, pgn, src): prio and src are uint8_t, pgn is uint32_t
n2k_id(prio, pgn, src) ==
    LET PF == (pgn \div 256) % 256
        PDU_SPEC == IF PF < 240 THEN 255 ELSE pgn % 256
        DP == (pgn \div 65536) % 2
    IN  (prio % 8) * 67108864 + DP * 16777216 + PF * 65536 + PDU_SPEC * 256 + src

\* extractPGN(m), on m.identifier
extractPGN(id) ==
    LET PF == (id \div 65536) % 256
        DP == (id \div 16777216) % 2
        PDU_SPEC == (id \div 256) % 256
    IN  IF PF < 240 THEN DP * 65536 + PF * 256
        ELSE DP * 65536 + PF * 256 + PDU_SPEC

\* twai_tx(id, data, len): the message handed to twai_transmit.  msg = {} zeroes
\* the 8 data bytes, memcpy fills the first len.
twai_tx(id, data, len) ==
    [identifier |-> id, extd |-> 1, data_length_code |-> len,
     data |-> Poke(Fill(8, 0), 0, Take(data, len))]

\* n2k_send_single appends its one frame to the frames sent by state M
n2k_send_single(M, pgn, payload, len, prio) ==
    [M EXCEPT !.n2k_tx = Append(@, twai_tx(n2k_id(prio, pgn, SA), payload, len))]

\* The while loop of n2k_send_fast: the continuation frames from offset sent on
RECURSIVE n2k_send_fast_rest(_, _, _, _, _)
n2k_send_fast_rest(id, seq, payload, sent, idx) ==
    IF sent < Len(payload)
    THEN LET t == Min2(7, Len(payload) - sent)
             f == Poke(<< seq * 32 + (idx % 32) >> \o Fill(7, 255), 1,
                       SubSeq(payload, sent + 1, sent + t))
         IN  << twai_tx(id, f, 8) >>
             \o Bind(<< sent + t, (idx + 1) % 256 >>,
                     LAMBDA n : n2k_send_fast_rest(id, seq, payload, n[1], n[2]))
    ELSE << >>

\* Variant of n2k_send_fast without the memset of the first frame to 0xFF
n2k_send_fast_no_memset(pgn, payload, prio, ms) ==
    LET seq == (ms \div 32) % 8
        id == n2k_id(prio, pgn, SA)
        len == Len(payload)
        take == IF len > 6 THEN 6 ELSE len
        f == Poke(<< seq * 32, len % 256 >> \o Fill(6, 0), 2, Take(payload, take))
    IN  << twai_tx(id, f, 8) >> \o n2k_send_fast_rest(id, seq, payload, take, 1)

\* Variant of n2k_send_fast whose frame counter idx starts at 0, not 1
n2k_send_fast_idx_from_0(pgn, payload, prio, ms) ==
    LET seq == (ms \div 32) % 8
        id == n2k_id(prio, pgn, SA)
        len == Len(payload)
        take == IF len > 6 THEN 6 ELSE len
        f == Poke(<< seq * 32, len % 256 >> \o Fill(6, 255), 2, Take(payload, take))
    IN  << twai_tx(id, f, 8) >> \o n2k_send_fast_rest(id, seq, payload, take, 0)

\* n2k_send_fast(pgn, payload, len, prio) with len = Len(payload) and ms = millis():
\* the frames it transmits, in order
n2k_send_fast(pgn, payload, prio, ms) ==
    LET seq == (ms \div 32) % 8
        id == n2k_id(prio, pgn, SA)
        len == Len(payload)
        take == IF len > 6 THEN 6 ELSE len
        f == Poke(<< seq * 32, len % 256 >> \o Fill(6, 255), 2, Take(payload, take))
    IN  << twai_tx(id, f, 8) >> \o n2k_send_fast_rest(id, seq, payload, take, 1)

\* A fast-packet transmission by state M
SendFast(M, pgn, payload, prio, ms) ==
    [M EXCEPT !.n2k_tx = @ \o n2k_send_fast(pgn, payload, prio, ms)]

----------------------------------------------------------------------------
\* Identity frames

Bit(v, k) == (v \div (2 ^ k)) % 2

\* bit i of ((uint64_t)(v & (2^width - 1))) << shift
NameField(v, width, shift, i) ==
    IF i >= shift /\ i < shift + width THEN Bit(v, i - shift) ELSE 0

\* Variant of NAME_LAYOUT with the device class at bit 48, on top of the bit
\* that is always 1
NAME_LAYOUT_class_at_48 ==
    << [f |-> "unique",    width |-> 21, shift |-> 0],
       [f |-> "mfg",       width |-> 11, shift |-> 21],
       [f |-> "dev_inst",  width |-> 3,  shift |-> 32],
       [f |-> "func_inst", width |-> 5,  shift |-> 35],
       [f |-> "func",      width |-> 8,  shift |-> 40],
       [f |-> "one",       width |-> 1,  shift |-> 48],
       [f |-> "dev_class", width |-> 7,  shift |-> 48],
       [f |-> "sys_inst",  width |-> 4,  shift |-> 56],
       [f |-> "ind_gr",    width |-> 3,  shift |-> 60],
       [f |-> "aac",       width |-> 1,  shift |-> 63] >>

\* buildNAME(): where each field goes.  Bit 48 is always written as 1 and the
\* four bits from 56 (the system instance) as 0.
NAME_LAYOUT ==
    << [f |-> "unique",    width |-> 21, shift |-> 0],
       [f |-> "mfg",       width |-> 11, shift |-> 21],
       [f |-> "dev_inst",  width |-> 3,  shift |-> 32],
       [f |-> "func_inst", width |-> 5,  shift |-> 35],
       [f |-> "func",      width |-> 8,  shift |-> 40],
       [f |-> "one",       width |-> 1,  shift |-> 48],
       [f |-> "dev_class", width |-> 7,  shift |-> 49],
       [f |-> "sys_inst",  width |-> 4,  shift |-> 56],
       [f |-> "ind_gr",    width |-> 3,  shift |-> 60],
       [f |-> "aac",       width |-> 1,  shift |-> 63] >>

\* the values buildNAME() packs
N2K_NAME ==
    [unique |-> N2K_UNIQUE, mfg |-> N2K_MFG, dev_inst |-> N2K_DEV_INST,
     func_inst |-> N2K_FUNC_INST, func |-> N2K_FUNC, one |-> 1,
     dev_class |-> N2K_DEV_CLASS, sys_inst |-> 0, ind_gr |-> N2K_IND_GR,
     aac |-> IF N2K_AAC # 0 THEN 1 ELSE 0]

\* the 64 bits of the NAME for the field values F, bit 0 the least
\* significant.  The |= of the source is the bitwise OR of the shifted fields.
buildNAME_of(F) ==
    [i \in 0..63 |->
        IF \E k \in 1..Len(NAME_LAYOUT) :
              NameField(F[NAME_LAYOUT[k].f], NAME_LAYOUT[k].width,
                        NAME_LAYOUT[k].shift, i) = 1
        THEN 1 ELSE 0]

\* buildNAME()
buildNAME == buildNAME_of(N2K_NAME)

\* p[i] = (uint8_t)((nm >> (8*i)) & 0xFF)
NameByte(nm, i) ==
    nm[8*i] + 2 * nm[8*i + 1] + 4 * nm[8*i + 2] + 8 * nm[8*i + 3]
    + 16 * nm[8*i + 4] + 32 * nm[8*i + 5] + 64 * nm[8*i + 6] + 128 * nm[8*i + 7]

send_60928_AddressClaim(M) ==
    n2k_send_single(M, PGN_ADDR_CLAIM, [i \in 1..8 |-> NameByte(buildNAME, i - 1)], 8, 6)

MODEL_ID == << 69, 55, 48, 48, 49, 48 >>
SW_VERSION == << 118, 49, 46, 48, 46, 48 >>
MODEL_VER == << 82, 97, 121, 109, 97, 114, 105, 110, 101, 32, 65, 80, 32, 40, 101, 109, 117, 41 >>
SERIAL_NO == << 82, 77, 45, 69, 77, 85, 45, 48, 48, 49 >>

\* pad32(dst, src): 32 bytes, src then zeros
pad32(src) == Poke(Fill(32, 0), 0, Take(src, 32))

send_126996_Product(M, ms) ==
    SendFast(M, PGN_PRODUCT_INFO,
             put_u16le(N2K_VERSION) \o put_u16le(PRODUCT_CODE)
             \o pad32(MODEL_ID) \o pad32(SW_VERSION) \o pad32(MODEL_VER) \o pad32(SERIAL_NO)
             \o << CERT_LEVEL, LEN_UNITS_50mA >>,
             6, ms)

----------------------------------------------------------------------------
\* Raymarine proprietary messages

rm_mfg_word_only == 1851 % 2048

rmModeField2(m) ==
    CASE m = PM_STBY -> 0
      [] m = PM_AUTO -> 64
      [] m = PM_WIND -> 256
      [] m = PM_TRACK -> 384
      [] OTHER -> 0

rmModeDataByte(m) ==
    CASE m = PM_STBY -> 0
      [] m = PM_AUTO -> 64
      [] m = PM_WIND -> 1
      [] m = PM_TRACK -> 128
      [] OTHER -> 0

\* deg = raw * 0.0001 * 180 / pi
rad1e4_to_deg(raw) == raw * 1000

\* while (deg < 0) deg += 360; while (deg >= 360) deg -= 360, on a heading >= 0
norm360(deg) == deg % Deg360

\* deg_to_rad1e4_u16(deg): roundf(rad * 10000), saturated at 0xFFFF
deg_to_rad1e4_u16(deg) ==
    LET v == (norm360(deg) + 500) \div 1000
    IN  IF v > 65535 THEN 65535 ELSE v

send_65360_locked_heading(M, hdg) ==
    IF hdg = NaN THEN M
    ELSE LET comp == rm_mfg_word_only
             ang == deg_to_rad1e4_u16(hdg)
             p == << comp % 256, comp \div 256, 255, ang % 256, ang \div 256,
                     ang % 256, ang \div 256, 255 >>
         IN  n2k_send_single(M, PGN_RM_LOCKED_HEADING, p, 8, 3)

\* Variant of send_65379_mode that leaves the mode data byte p[6] at 0xFF
send_65379_mode_no_data_byte(M, m) ==
    LET comp == rm_mfg_word_only
        mode2 == rmModeField2(m)
        p == << comp % 256, comp \div 256, mode2 % 256, mode2 \div 256,
                255, 255, 255, 255 >>
    IN  n2k_send_single(M, PGN_RM_PILOT_MODE, p, 8, 3)

\* send_65379_mode(m)
send_65379_mode(M, m) ==
    LET comp == rm_mfg_word_only
        mode2 == rmModeField2(m)
        p == << comp % 256, comp \div 256, mode2 % 256, mode2 \div 256,
                255, 255, rmModeDataByte(m), 255 >>
    IN  n2k_send_single(M, PGN_RM_PILOT_MODE, p, 8, 3)

\* send_65374_keypad_heartbeat()
send_65374_keypad_heartbeat(M) ==
    LET comp == rm_mfg_word_only
    IN  n2k_send_single(M, PGN_RM_KEYPAD_HEART,
                        << comp % 256, comp \div 256, 0, 1, 0, 255, 255, 255 >>, 8, 6)

----------------------------------------------------------------------------
\* Capabilities and status messages

\* n2k_send_fast ends every continuation frame with delay(3): the milliseconds a
\* transmission of len bytes takes (twai_transmit itself is taken as immediate)
FastMs(len) == 3 * (IF len <= 6 THEN 0 ELSE len \div 7)

\* emitLAU(s, out): length + 1, the code 0x01, the characters of s
emitLAU(s) == << Len(s) + 1, 1 >> \o s

CONFIG_INSTALL ==
    << 73, 110, 115, 116, 97, 108, 108, 58, 32, 69, 83, 80, 51, 50, 32, 79, 67, 80, 78,
       45, 62, 83, 84, 52, 48, 48, 48, 32, 98, 114, 105, 100, 103, 101 >>

CONFIG_MFR ==
    << 77, 102, 114, 58, 32, 82, 97, 121, 109, 97, 114, 105, 110, 101, 32, 40, 101, 109,
       117, 41 >>

\* send_126998_Config() called at time ms
send_126998_Config(M, ms) ==
    SendFast(M, PGN_CONFIG_INFO, emitLAU(CONFIG_INSTALL) \o emitLAU(CONFIG_MFR), 6, ms)

\* the PGNs of a list, each written by put_u32le
RECURSIVE put_pgns(_)
put_pgns(list) ==
    IF list = << >> THEN << >> ELSE put_u32le(Head(list)) \o put_pgns(Tail(list))

TX_LIST == << PGN_AP_STATUS, PGN_VESSEL_HEAD, PGN_PRODUCT_INFO, PGN_CONFIG_INFO,
              PGN_RM_PILOT_MODE, PGN_RM_LOCKED_HEADING, PGN_RM_KEYPAD_HEART >>

RX_LIST == << PGN_CMD_GROUP, PGN_WIND, PGN_STW, PGN_COGSOG, PGN_XTE, PGN_NAVDATA,
              PGN_ROUTE_WP, PGN_ISO_REQUEST, PGN_VESSEL_HEAD >>

\* send_126464_PGN_List() called at time ms: the transmit list, then the receive
\* list when the transmit list has left
send_126464_PGN_List(M, ms) ==
    LET a == put_pgns(TX_LIST)
        b == put_pgns(RX_LIST)
    IN  SendFast(SendFast(M, PGN_PGN_LIST, a, 6, ms), PGN_PGN_LIST, b, 6, ms + FastMs(Len(a)))

\* Variant of announce that sends the transmit list but not the receive list
announce_one_list(M, ms) ==
    LET M1 == send_60928_AddressClaim(M)
        M2 == send_126996_Product(M1, ms)
        t2 == ms + FastMs(134)
        M3 == send_126998_Config(M2, t2)
        t3 == t2 + FastMs(Len(emitLAU(CONFIG_INSTALL) \o emitLAU(CONFIG_MFR)))
    IN  SendFast(M3, PGN_PGN_LIST, put_pgns(TX_LIST), 6, t3)

\* The identity and capabilities block of setup() and of loop(), begun at time ms
announce(M, ms) ==
    LET M1 == send_60928_AddressClaim(M)
        M2 == send_126996_Product(M1, ms)
        t2 == ms + FastMs(134)
        M3 == send_126998_Config(M2, t2)
        t3 == t2 + FastMs(Len(emitLAU(CONFIG_INSTALL) \o emitLAU(CONFIG_MFR)))
    IN  send_126464_PGN_List(M3, t3)

\* the milliseconds announce takes
AnnounceMs ==
    FastMs(134) + FastMs(Len(emitLAU(CONFIG_INSTALL) \o emitLAU(CONFIG_MFR)))
    + FastMs(Len(put_pgns(TX_LIST))) + FastMs(Len(put_pgns(RX_LIST)))

\* the steer bits of send_127237 for a SteeringMode
steerBits(mode) ==
    CASE mode = SM_STANDBY -> 0
      [] mode = SM_AUTO -> 4
      [] mode = SM_WIND -> 4
      [] mode = SM_TRACK -> 5
      [] OTHER -> 0

\* (int16_t)lrintf(fmodf(deg, 360) in rad * 10000), as the 16 bits put_i16le writes
deg_to_rad1e4_i16(deg) == (((deg % Deg360) + 500) \div 1000) % 65536

\* send_127237(mode, ref, hts_deg) called at time ms
send_127237(M, mode, ref, hts_deg, ms) ==
    LET refBits == IF ref = REF_TRUE THEN 0 ELSE 1
        q == deg_to_rad1e4_i16(hts_deg)
        p == << 0, (steerBits(mode) % 8) + 64 * (refBits % 4) >> \o Fill(11, 255)
             \o put_u16le(q) \o Fill(6, 255)
    IN  SendFast(M, PGN_AP_STATUS, p, 2, ms)

\* send_127250(heading_deg_now, ref)
send_127250(M, heading_deg_now, ref) ==
    LET q == deg_to_rad1e4_i16(heading_deg_now)
        d == << 0 >> \o put_u16le(q) \o << 255, 255, 255, 255,
                                            IF ref = REF_TRUE THEN 0 ELSE 1 >>
    IN  n2k_send_single(M, PGN_VESSEL_HEAD, d, 8, 2)

----------------------------------------------------------------------------
\* SeaTalk keystrokes (0x86)

\* st_write_datagram(data, len): the datagram goes out on the SeaTalk line
st_write_datagram(M, data) ==
    IF Len(data) = 0 THEN M ELSE [M EXCEPT !.st_tx = Append(@, data)]

\* st_send_keystroke(code): b3 = (uint8_t)~code
\* Variant of st_send_keystroke with b3 = (uint8_t)-code, the two's complement
st_send_keystroke_negated(M, code) ==
    st_write_datagram(M, << 134, ST_SENDER_NIB * 16 + 1, code, (256 - code) % 256 >>)

st_send_keystroke(M, code) ==
    st_write_datagram(M, << 134, ST_SENDER_NIB * 16 + 1, code, 255 - code >>)

\* Variant of st_press that sends the keystroke once
st_press_once(M, code) == st_send_keystroke(M, code)

\* st_press(code, repeats = 2, spacing_ms = 120)
st_press(M, code) == st_send_keystroke(st_send_keystroke(M, code), code)

----------------------------------------------------------------------------
\* 126208 handling: the pilot mode state machine

\* case 65379 of handle_126208_request: eight 0xFF bytes, priority 3
\* Variant of handle_126208_request whose default case sends the product information
handle_126208_request_default_product(M, target, ms) ==
    CASE target = 65379 -> n2k_send_single(M, 65379, Fill(8, 255), 8, 3)
      [] target = 65360 ->
            IF M.locked_hdg_deg # NaN
            THEN send_65360_locked_heading(M, M.locked_hdg_deg) ELSE M
      [] target = 126996 -> send_126996_Product(M, ms)
      [] target = 60928 -> send_60928_AddressClaim(M)
      [] OTHER -> send_126996_Product(M, ms)

handle_126208_request(M, target, ms) ==
    CASE target = 65379 -> n2k_send_single(M, 65379, Fill(8, 255), 8, 3)
      [] target = 65360 ->
            IF M.locked_hdg_deg # NaN
            THEN send_65360_locked_heading(M, M.locked_hdg_deg) ELSE M
      [] target = 126996 -> send_126996_Product(M, ms)
      [] target = 60928 -> send_60928_AddressClaim(M)
      [] OTHER -> M

\* gf65360_extractMagHeading(b, n, deg_out): the first b[i] == 0x06 with i <= n-3
gf65360_extractMagHeading(b) ==
    LET hits == {i \in 1..(Len(b) - 2) : b[i] = 6}
    IN  IF hits = {} THEN [found |-> FALSE, deg |-> 0]
        ELSE LET i == MinOf(hits)
             IN  [found |-> TRUE, deg |-> rad1e4_to_deg(b[i + 1] + 256 * b[i + 2])]

\* history: one entry per selector or button pattern the scans meet, with the
\* mode before and after it and what it sent
Logged(M, kind, code, R) ==
    [R EXCEPT !.steps = Append(@,
        [kind |-> kind, code |-> code, from |-> M.currentMode, to |-> R.currentMode,
         hdg |-> M.hdg_deg_now, locked_before |-> M.locked_hdg_deg,
         ref_before |-> M.headingRef,
         locked |-> R.locked_hdg_deg, ref |-> R.headingRef,
         st |-> SubSeq(R.st_tx, Len(M.st_tx) + 1, Len(R.st_tx)),
         tx |-> SubSeq(R.n2k_tx, Len(M.n2k_tx) + 1, Len(R.n2k_tx))])]

\* Variant of the selector loop body in which Wind is keyed in like Track
selector_step_wind_as_auto(M, sel) ==
    LET nm == CASE sel = 0 -> PM_STBY
                [] sel = 64 -> PM_AUTO
                [] sel = 1 -> PM_WIND
                [] sel = 128 -> PM_TRACK
                [] OTHER -> M.currentMode
    IN  IF nm # M.currentMode
        THEN LET M1 == [M EXCEPT !.currentMode = nm, !.headingRef = REF_MAG]
                 M2 == IF nm = PM_AUTO
                       THEN [st_press(M1, ST_CODE_AUTO) EXCEPT !.locked_hdg_deg = M.hdg_deg_now]
                       ELSE M1
                 M3 == IF nm = PM_STBY
                       THEN [st_press(M2, ST_CODE_STANDBY) EXCEPT !.locked_hdg_deg = NaN]
                       ELSE M2
                 M4 == IF nm = PM_TRACK \/ nm = PM_WIND
                       THEN [st_press(M3, ST_CODE_AUTO) EXCEPT !.locked_hdg_deg = M.hdg_deg_now]
                       ELSE M3
             IN  send_65379_mode(M4, M4.currentMode)
        ELSE M

\* the body of the selector loop for one match 04 04 <sel>
selector_step(M, sel) ==
    LET nm == CASE sel = 0 -> PM_STBY
                [] sel = 64 -> PM_AUTO
                [] sel = 1 -> PM_WIND
                [] sel = 128 -> PM_TRACK
                [] OTHER -> M.currentMode
    IN  IF nm # M.currentMode
        THEN LET M1 == [M EXCEPT !.currentMode = nm, !.headingRef = REF_MAG]
                 M2 == IF nm = PM_AUTO
                       THEN [st_press(M1, ST_CODE_AUTO) EXCEPT !.locked_hdg_deg = M.hdg_deg_now]
                       ELSE M1
                 M3 == IF nm = PM_STBY
                       THEN [st_press(M2, ST_CODE_STANDBY) EXCEPT !.locked_hdg_deg = NaN]
                       ELSE M2
                 M4 == IF nm = PM_TRACK
                       THEN [st_press(M3, ST_CODE_AUTO) EXCEPT !.locked_hdg_deg = M.hdg_deg_now]
                       ELSE M3
             IN  send_65379_mode(M4, M4.currentMode)
        ELSE M

\* Variant of the button switch in which Track leaves the locked heading alone
button_step_track_keeps_lock(M, code) ==
    CASE code = 0 ->
            LET M1 == st_press([M EXCEPT !.currentMode = PM_STBY], ST_CODE_STANDBY)
            IN  send_65379_mode([M1 EXCEPT !.locked_hdg_deg = NaN], PM_STBY)
      [] code = 64 ->
            LET M1 == st_press([M EXCEPT !.currentMode = PM_AUTO], ST_CODE_AUTO)
            IN  send_65379_mode([M1 EXCEPT !.locked_hdg_deg = M.hdg_deg_now], PM_AUTO)
      [] code = 1 -> send_65379_mode([M EXCEPT !.currentMode = PM_WIND], PM_WIND)
      [] code = 128 ->
            LET M1 == st_press([M EXCEPT !.currentMode = PM_TRACK], ST_CODE_AUTO)
            IN  send_65379_mode(M1, PM_TRACK)
      [] code = 81 -> st_press(M, ST_CODE_PLUS1)
      [] code = 127 -> st_press(M, ST_CODE_MINUS1)
      [] code = 209 -> st_press(M, ST_CODE_PLUS10)
      [] code = 80 -> st_press(M, ST_CODE_MINUS10)
      [] OTHER -> M

\* Variant of the button switch with the +10 and -10 keystrokes swapped
button_step_tens_swapped(M, code) ==
    CASE code = 0 ->
            LET M1 == st_press([M EXCEPT !.currentMode = PM_STBY], ST_CODE_STANDBY)
            IN  send_65379_mode([M1 EXCEPT !.locked_hdg_deg = NaN], PM_STBY)
      [] code = 64 ->
            LET M1 == st_press([M EXCEPT !.currentMode = PM_AUTO], ST_CODE_AUTO)
            IN  send_65379_mode([M1 EXCEPT !.locked_hdg_deg = M.hdg_deg_now], PM_AUTO)
      [] code = 1 -> send_65379_mode([M EXCEPT !.currentMode = PM_WIND], PM_WIND)
      [] code = 128 ->
            LET M1 == st_press([M EXCEPT !.currentMode = PM_TRACK], ST_CODE_AUTO)
            IN  send_65379_mode([M1 EXCEPT !.locked_hdg_deg = M.hdg_deg_now], PM_TRACK)
      [] code = 81 -> st_press(M, ST_CODE_PLUS1)
      [] code = 127 -> st_press(M, ST_CODE_MINUS1)
      [] code = 209 -> st_press(M, ST_CODE_MINUS10)
      [] code = 80 -> st_press(M, ST_CODE_PLUS10)
      [] OTHER -> M

\* the switch of the button loop for one match 06 <code>
button_step(M, code) ==
    CASE code = 0 ->
            LET M1 == st_press([M EXCEPT !.currentMode = PM_STBY], ST_CODE_STANDBY)
            IN  send_65379_mode([M1 EXCEPT !.locked_hdg_deg = NaN], PM_STBY)
      [] code = 64 ->
            LET M1 == st_press([M EXCEPT !.currentMode = PM_AUTO], ST_CODE_AUTO)
            IN  send_65379_mode([M1 EXCEPT !.locked_hdg_deg = M.hdg_deg_now], PM_AUTO)
      [] code = 1 -> send_65379_mode([M EXCEPT !.currentMode = PM_WIND], PM_WIND)
      [] code = 128 ->
            LET M1 == st_press([M EXCEPT !.currentMode = PM_TRACK], ST_CODE_AUTO)
            IN  send_65379_mode([M1 EXCEPT !.locked_hdg_deg = M.hdg_deg_now], PM_TRACK)
      [] code = 81 -> st_press(M, ST_CODE_PLUS1)
      [] code = 127 -> st_press(M, ST_CODE_MINUS1)
      [] code = 209 -> st_press(M, ST_CODE_PLUS10)
      [] code = 80 -> st_press(M, ST_CODE_MINUS10)
      [] OTHER -> M

\* for (i = 0; i <= n-3; i++) if (b[i]==0x04 && b[i+1]==0x04) ...   (i is the C index)
RECURSIVE selector_scan(_, _, _)
selector_scan(M, b, i) ==
    IF i > Len(b) - 3 THEN M
    ELSE selector_scan(
            IF b[i + 1] = 4 /\ b[i + 2] = 4
            THEN Logged(M, "selector", b[i + 3], selector_step(M, b[i + 3]))
            ELSE M,
            b, i + 1)

\* for (i = 0; i <= n-3; i++) if (b[i]==0x06) switch (b[i+1]) ...
RECURSIVE button_scan(_, _, _)
button_scan(M, b, i) ==
    IF i > Len(b) - 3 THEN M
    ELSE button_scan(
            IF b[i + 1] = 6
            THEN Logged(M, "button", b[i + 2], button_step(M, b[i + 2]))
            ELSE M,
            b, i + 1)

\* apply_rm_selector_or_button(b, n): every selector first, then every button.
\* (Its bool result only gates a diagnostic print.)
apply_rm_selector_or_button(M, b) == button_scan(selector_scan(M, b, 0), b, 0)

\* handle_126208_full(b, n); history: the call is recorded in calls
handle_126208_full(M, b, ms) ==
    LET M0 == [M EXCEPT !.calls = Append(@, b)]
    IN  IF Len(b) < 4 THEN M0
        ELSE LET func == b[1]
                 target == b[2] + 256 * b[3] + 65536 * b[4]
                 par == Drop(b, 4)
             IN  IF func = 1 THEN handle_126208_request(M0, target, ms)
                 ELSE IF target = PGN_RM_PILOT_MODE \/ target = PGN_RM_LOCKED_HEADING
                 THEN LET M1 == apply_rm_selector_or_button(M0, par)
                          h == gf65360_extractMagHeading(par)
                      IN  IF target = PGN_RM_LOCKED_HEADING /\ h.found
                          THEN [M1 EXCEPT !.locked_hdg_deg = norm360(h.deg)]
                          ELSE M1
                 ELSE M0

----------------------------------------------------------------------------
\* 126208 handling: the reassembler

\* gf_reset(): grp = {} (every member back to its initializer, buf zeroed)
gf_reset ==
    [active |-> FALSE, sa |-> 255, seq |-> 255, total |-> 0, next |-> 0, filled |-> 0,
     buf |-> Fill(GRP_BUF_SIZE, 0)]

\* if (grp.filled >= grp.total) { handle_126208_full(grp.buf, grp.total); gf_reset(); }
\* history: the command handed over is recorded in fed
gf_complete(M, g, ms) ==
    IF g.filled >= g.total
    THEN LET cmd == Take(g.buf, g.total)
         IN  [handle_126208_full([M EXCEPT !.fed = Append(@, cmd)], cmd, ms)
                EXCEPT !.grp = gf_reset]
    ELSE [M EXCEPT !.grp = g]

\* Variant of feed_126208 without the test fi == grp.next
feed_126208_any_index(M, sa, d, n, ms) ==
    IF n < 2 THEN M
    ELSE LET fi == d[1] % 32
             seq == (d[1] \div 32) % 8
         IN  IF fi = 0
             THEN IF d[2] > GRP_BUF_SIZE THEN [M EXCEPT !.grp = gf_reset]
                  ELSE LET take == Min2(6, d[2])
                           g == [active |-> TRUE, sa |-> sa, seq |-> seq, total |-> d[2],
                                 next |-> 1, filled |-> take,
                                 buf |-> Poke(gf_reset.buf, 0, SubSeq(d, 3, 2 + take))]
                       IN  gf_complete(M, g, ms)
             ELSE IF M.grp.active /\ M.grp.sa = sa /\ M.grp.seq = seq
             THEN LET remain == M.grp.total - M.grp.filled
                      take == Min2(7, remain)
                      g == [M.grp EXCEPT !.next = (@ + 1) % 256,
                                         !.buf = Poke(@, M.grp.filled, SubSeq(d, 2, 1 + take)),
                                         !.filled = @ + take]
                  IN  gf_complete(M, g, ms)
             ELSE [M EXCEPT !.grp = gf_reset]

\* feed_126208(sa, d, n): d is the 8-byte data array of the received message
feed_126208(M, sa, d, n, ms) ==
    IF n < 2 THEN M
    ELSE LET fi == d[1] % 32
             seq == (d[1] \div 32) % 8
         IN  IF fi = 0
             THEN IF d[2] > GRP_BUF_SIZE THEN [M EXCEPT !.grp = gf_reset]
                  ELSE LET take == Min2(6, d[2])
                           g == [active |-> TRUE, sa |-> sa, seq |-> seq, total |-> d[2],
                                 next |-> 1, filled |-> take,
                                 buf |-> Poke(gf_reset.buf, 0, SubSeq(d, 3, 2 + take))]
                       IN  gf_complete(M, g, ms)
             ELSE IF M.grp.active /\ M.grp.sa = sa /\ M.grp.seq = seq /\ fi = M.grp.next
             THEN LET remain == M.grp.total - M.grp.filled
                      take == Min2(7, remain)
                      g == [M.grp EXCEPT !.next = (@ + 1) % 256,
                                         !.buf = Poke(@, M.grp.filled, SubSeq(d, 2, 1 + take)),
                                         !.filled = @ + take]
                  IN  gf_complete(M, g, ms)
             ELSE [M EXCEPT !.grp = gf_reset]

----------------------------------------------------------------------------
\* In-order runs of fast-packet frames (history only).  A run is the sequence of
\* the latest frames f1..fk such that f1 has frame index 0 and every later one
\* has the same source address, the same sequence id and the next frame index.
\* A frame is [sa, d, n]: source address, the 8 data bytes, the data length.

FrameFi(f) == f.d[1] % 32

FrameSeq(f) == (f.d[1] \div 32) % 8

RunTotal(run) == run[1].d[2]

RunComplete(run) == run # << >> /\ 6 + 7 * (Len(run) - 1) >= RunTotal(run)

RECURSIVE RunBytes(_, _)
RunBytes(run, k) ==
    IF k > Len(run) THEN << >>
    ELSE SubSeq(run[k].d, IF k = 1 THEN 3 ELSE 2, 8) \o RunBytes(run, k + 1)

\* the declared number of bytes of the concatenated payload slices
RunPayload(run) == Take(RunBytes(run, 1), RunTotal(run))

\* a run that completed in the previous event is over
RunOpen(run) == IF RunComplete(run) THEN << >> ELSE run

\* frames too short to carry a sequence byte and a payload byte (n < 2) are not
\* fast-packet frames and leave the run alone
RunStep(run, f) ==
    IF f.n < 2 THEN run
    ELSE IF FrameFi(f) = 0 THEN << f >>
    ELSE IF run # << >> /\ f.sa = run[1].sa /\ FrameSeq(f) = FrameSeq(run[1])
            /\ FrameFi(f) = Len(run)
    THEN Append(run, f)
    ELSE << >>

----------------------------------------------------------------------------
\* Receive path

\* handle_126208_entry(sa, d, n); history: asm follows the frames given to feed_126208
handle_126208_entry(M, sa, d, n, ms) ==
    IF n <= 0 THEN M
    ELSE IF (d[1] \div 32) * 32 >= 160
    THEN handle_126208_full(M, Take(d, n), ms)
    ELSE feed_126208([M EXCEPT !.asm = RunStep(@, [sa |-> sa, d |-> d, n |-> n])],
                     sa, d, n, ms)

\* memcpy(&meters, b+0, sizeof(float)): the little-endian IEEE-754 single in
\* b[0..3], as millimetres (truncated).  Magnitudes from 2^17 m on, infinities
\* and NaN patterns come out as FloatSat; st_send_nav_0x85 clamps far below.
FloatSat == 131072000

float_mm(b) ==
    LET sign == b[4] \div 128
        exp == (b[4] % 128) * 2 + (b[3] \div 128)
        mant == (b[3] % 128) * 65536 + b[2] * 256 + b[1]
        mag == IF exp = 0 \/ exp < 113 THEN 0
               ELSE IF exp >= 144 THEN FloatSat
               ELSE (((8388608 + mant) \div 128) * 1000) \div (2 ^ (143 - exp))
    IN  IF sign = 1 THEN 0 - mag ELSE mag

\* meters / 1852.0f, from millimetres to 1/1000 nm (truncated)
meters_to_nm(mm) == IF mm < 0 THEN 0 - ((0 - mm) \div 1852) ELSE mm \div 1852

\* Variant of case_PGN_COGSOG that stores the course as the vessel heading
case_PGN_COGSOG_as_heading(M, b, n) ==
    IF n >= 7
    THEN LET cogr == b[2] + 256 * b[3]
             sogc == b[6] + 256 * b[7]
         IN  [M EXCEPT !.hdg_deg_now = rad1e4_to_deg(cogr) % Deg360,
                       !.sog_kn = IF sogc = 65535 THEN 0 ELSE sogc]
    ELSE M

\* case PGN_COGSOG of the receive switch
case_PGN_COGSOG(M, b, n) ==
    IF n >= 7
    THEN LET cogr == b[2] + 256 * b[3]
             sogc == b[6] + 256 * b[7]
         IN  [M EXCEPT !.cog_mag_deg = rad1e4_to_deg(cogr) % Deg360,
                       !.sog_kn = IF sogc = 65535 THEN 0 ELSE sogc]
    ELSE M

\* The receive half of loop() for a message m that twai_receive returned
loop_rx(M, m, ms) ==
    IF m.extd = 0 THEN M
    ELSE LET pgn == extractPGN(m.identifier)
             b == m.data
             n == m.data_length_code
         IN  CASE pgn = PGN_CMD_GROUP ->
                    handle_126208_entry(M, m.identifier % 256, b, n, ms)
               [] pgn = PGN_ISO_REQUEST ->
                    IF n >= 3
                    THEN handle_126208_request(M, b[1] + 256 * b[2] + 65536 * b[3], ms)
                    ELSE M
               [] pgn = PGN_VESSEL_HEAD ->
                    IF n >= 3
                    THEN [M EXCEPT !.hdg_deg_now = rad1e4_to_deg(b[2] + 256 * b[3])]
                    ELSE M
               [] pgn = PGN_WIND ->
                    IF n >= 6
                    THEN LET sp == b[2] + 256 * b[3]
                             an == b[4] + 256 * b[5]
                         IN  [M EXCEPT !.aws_kn = IF sp = 65535 THEN 0 ELSE sp,
                                       !.awa_deg = IF an = 65535 THEN 0
                                                   ELSE rad1e4_to_deg(an) % Deg360]
                    ELSE M
               [] pgn = PGN_STW ->
                    IF n >= 3
                    THEN LET raw == b[2] + 256 * b[3]
                         IN  [M EXCEPT !.stw_kn = IF raw = 65535 THEN 0 ELSE raw]
                    ELSE M
               [] pgn = PGN_COGSOG -> case_PGN_COGSOG(M, b, n)
               [] pgn = PGN_XTE ->
                    IF n >= 8 THEN [M EXCEPT !.xte_nm = meters_to_nm(float_mm(b))] ELSE M
               [] pgn = PGN_NAVDATA -> M
               [] pgn = PGN_ROUTE_WP -> M
               [] OTHER -> M

\* The bridge's state as one record, with the histories of the last event cleared
Machine ==
    [currentMode |-> currentMode, headingRef |-> headingRef,
     hdg_deg_now |-> hdg_deg_now, locked_hdg_deg |-> locked_hdg_deg,
     xte_nm |-> xte_nm, cog_mag_deg |-> cog_mag_deg, sog_kn |-> sog_kn,
     awa_deg |-> awa_deg, aws_kn |-> aws_kn, stw_kn |-> stw_kn, since |-> since,
     grp |-> grp,
     st_tx |-> << >>, n2k_tx |-> << >>, calls |-> << >>, fed |-> << >>, steps |-> << >>,
     asm |-> RunOpen(asm)]

----------------------------------------------------------------------------
\* SeaTalk navigation datagram (0x85) and the periodic half of loop()

\* Variant of clampf without the upper limit
clampf_low_only(v, lo, hi) == IF v < lo THEN lo ELSE v

\* clampf(v, lo, hi)
clampf(v, lo, hi) == IF v < lo THEN lo ELSE IF v > hi THEN hi ELSE v

\* roundf(rem * 2.0f) for rem below 90 degrees, in half degrees
half_degrees(rem) == (rem * 100 + 4363323) \div 8726646

\* st_send_nav_0x85(xteNm, bearingMagDeg, distNm, enterTrack), the cross-track
\* error and the distance in 1/1000 nm
st_send_nav_0x85(M, xteNm, bearingMagDeg, distNm, enterTrack) ==
    LET xabs == IF xteNm < 0 THEN 0 - xteNm ELSE xteNm
        X == (clampf(xabs, 0, 40950) + 5) \div 10
        X_hi == (X \div 256) % 16
        X_lo == X % 256
        brg == bearingMagDeg % Deg360
        quad == ((brg * 4) \div Deg360) % 4
        U == quad
        rem == brg - (quad * Deg360) \div 4
        WV == half_degrees(rem) % 256
        V == WV % 16
        W == (WV \div 16) % 16
        lt10 == distNm < 10000
        dist == clampf(distNm, 0, 409500)
        D == IF lt10 THEN (dist + 5) \div 10 ELSE (dist + 50) \div 100
        Z_hi == (D \div 256) % 16
        ZZ == (D \div 16) % 256
        Y0 == D % 16
        Y1 == IF lt10 /\ Y0 % 2 = 0 THEN Y0 + 1 ELSE Y0
        Y == IF xteNm < 0 /\ (Y1 \div 4) % 2 = 0 THEN Y1 + 4 ELSE Y1
        F == IF enterTrack THEN 7 ELSE 5
        p == << 133, 96 + X_hi, X_lo, V * 16 + U, Z_hi * 16 + W, ZZ, Y * 16 + F, 0,
                Y * 16 + F >>
    IN  st_write_datagram(M, p)

\* The periodic half of loop(), with now = ms: every sender whose time has come
\* runs and its timer starts again
loop_tx(M, ms) ==
    LET RM(M0) ==
            IF M0.since["RM"] > 1000
            THEN [(IF M0.currentMode # PM_STBY /\ M0.locked_hdg_deg # NaN
                   THEN send_65360_locked_heading(M0, M0.locked_hdg_deg)
                   ELSE M0) EXCEPT !.since["RM"] = 0]
            ELSE M0
        AP(M1) ==
            IF M1.since["AP"] > 1000
            THEN LET hts == IF M1.locked_hdg_deg = NaN THEN M1.hdg_deg_now
                            ELSE M1.locked_hdg_deg
                 IN  [send_127250(send_127237(M1, M1.currentMode, M1.headingRef, hts, ms),
                                  M1.hdg_deg_now, M1.headingRef)
                      EXCEPT !.since["AP"] = 0]
            ELSE M1
        HB(M2) ==
            IF M2.since["HB"] > 3000
            THEN [send_65374_keypad_heartbeat(M2) EXCEPT !.since["HB"] = 0]
            ELSE M2
        Announce(M3, t) ==
            IF M3.since["Announce"] > 15000
            THEN [announce(M3, t) EXCEPT !.since["Announce"] = 0]
            ELSE M3
        PI(M4) ==
            IF M4.since["PI"] > 2000
            THEN [n2k_send_single(M4, PGN_HEARTBEAT, Fill(8, 0), 8, 6)
                  EXCEPT !.since["PI"] = 0]
            ELSE M4
        ST(M5) ==
            IF M5.since["ST"] > 1000
            THEN LET brg == IF M5.locked_hdg_deg # NaN THEN M5.locked_hdg_deg
                            ELSE IF M5.cog_mag_deg > 0 THEN M5.cog_mag_deg
                            ELSE M5.hdg_deg_now
                 IN  [st_send_nav_0x85(M5, M5.xte_nm, brg, dtw_nm, M5.currentMode = PM_TRACK)
                      EXCEPT !.since["ST"] = 0]
            ELSE M5
    IN  Bind(RM(M), LAMBDA M1 :
        Bind(AP(M1), LAMBDA M2 :
        Bind(HB(M2), LAMBDA M3 :
        Bind(Announce(M3, IF M1.since["AP"] > 1000 THEN ms + FastMs(21) ELSE ms),
             LAMBDA M4 :
        Bind(PI(M4), LAMBDA M5 : ST(M5))))))

\* st_press holds loop() for delay(120) after each keystroke: the time the
\* receive half of a pass took
rx_ms(M) == 120 * Len(M.st_tx)

\* One pass of loop() that begins at time ms: m is the frame twai_receive
\* returned, or NoFrame when it timed out
NoFrame == [extd |-> 0]

loop(M, m, ms) == Bind(loop_rx(M, m, ms), LAMBDA M1 : loop_tx(M1, ms + rx_ms(M1)))

----------------------------------------------------------------------------
\* The other devices on the bus: the frames they send to the bridge

NumSources == 2
NumPatterns == 2

\* source address of remote device i
RemoteSa(i) == 10 + i

Sources == {RemoteSa(i) : i \in 1..NumSources}

\* identifier of a frame from src: a PDU1 PGN carries the destination dst
BusId(prio, pgn, dst, src) ==
    LET PF == (pgn \div 256) % 256
        DP == (pgn \div 65536) % 2
    IN  (prio % 8) * 67108864 + DP * 16777216 + PF * 65536
        + (IF PF < 240 THEN dst ELSE pgn % 256) * 256 + src

Pgn3(pgn) == << pgn % 256, (pgn \div 256) % 256, (pgn \div 65536) % 256 >>

\* a received message with n data bytes (the driver zeroes the bytes after them)
Msg(id, bytes, n) ==
    [identifier |-> id, extd |-> 1, data_length_code |-> n,
     data |-> Poke(Fill(8, 0), 0, Take(bytes, 8))]

CmdId(i) == BusId(3, PGN_CMD_GROUP, SA, RemoteSa(i))

\* a command: function byte, target PGN (3 bytes, little endian), parameter bytes
Cmd(func, target, params) == << func >> \o Pgn3(target) \o params

\* function bytes: 1 is served as a read request, every other value is a write;
\* a first byte of 0xA0 (160) or more makes a frame a single-frame command
FUNC_REQUEST == 0 + 1
FUNC_WRITE == 0 + 5
FUNC_SINGLE == 0 + 160

\* a command sent as one frame
SingleFrame(i, cmd) == Msg(CmdId(i), cmd, Len(cmd))

FpCount(len) == IF len <= 6 THEN 1 ELSE 1 + (len \div 7)

\* frame k (0, 1, ...) of the fast-packet transmission of cmd with sequence id seq
FpFrame(i, seq, k, cmd) ==
    IF k = 0
    THEN Msg(CmdId(i), Poke(<< seq * 32, Len(cmd) >> \o Fill(6, 255), 2, Take(cmd, 6)), 8)
    ELSE Msg(CmdId(i),
             Poke(<< seq * 32 + k >> \o Fill(7, 255), 1,
                  SubSeq(cmd, 7 * k, Min2(7 * k + 6, Len(cmd)))), 8)

FpFrames(i, seq, cmd) == {FpFrame(i, seq, k, cmd) : k \in 0..(FpCount(Len(cmd)) - 1)}

ModeCodes == {0, 64, 1, 128}
NudgeCodes == {81, 127, 209, 80}
UnknownCode == 50 + 1

\* raw locked-heading values (1e-4 rad) of the 65360 write commands: 4660 = 0x1234,
\* 62832 = 0xF570 (just above 360 degrees), 31552 = 0x7B40 (low byte 0x40)
HeadingRaws == {4660, 62832, 31552}

\* raw headings of the 127250 vessel-heading messages (63000 is above 360 degrees)
HeadingQs == {20000, 63000}

SelectorCmds(func) ==
    {Cmd(func, PGN_RM_PILOT_MODE, << 4, 4, sel >>) : sel \in ModeCodes \cup {UnknownCode}}

ButtonCmds(func) ==
    {Cmd(func, PGN_RM_PILOT_MODE, << 6, code, 255 >>) :
        code \in ModeCodes \cup NudgeCodes \cup {UnknownCode}}

HeadingCmds(func) ==
    {Cmd(func, PGN_RM_LOCKED_HEADING, << 6, raw % 256, raw \div 256 >>) : raw \in HeadingRaws}

OtherCmds(func) ==
    { Cmd(func, PGN_RM_PILOT_MODE, << 6, 64 >>),
      Cmd(func, PGN_RM_LOCKED_HEADING, << 4, 4, 64 >>),
      Cmd(func, PGN_PRODUCT_INFO, << 4, 4, 64 >>) }

\* two selectors in one command: Auto, then Standby
DoubleCmd == Cmd(FUNC_WRITE, PGN_RM_PILOT_MODE, << 4, 4, 64, 4, 4, 0 >>)

RequestCmds ==
    {Cmd(FUNC_REQUEST, t, << >>) : t \in {PGN_RM_PILOT_MODE, PGN_RM_LOCKED_HEADING}}

HeadingMsgs ==
    {Msg(BusId(2, PGN_VESSEL_HEAD, 255, RemoteSa(1)),
         << 0, q % 256, q \div 256, 255, 255, 255, 255, 1 >>, 8) : q \in HeadingQs}

\* what the pilot is sent: every command as a single frame (function byte 0xA0),
\* selector commands, the double selector and the requests as fast packets too
PilotPool ==
    {SingleFrame(1, c) : c \in SelectorCmds(FUNC_SINGLE) \cup ButtonCmds(FUNC_SINGLE)
                               \cup HeadingCmds(FUNC_SINGLE) \cup OtherCmds(FUNC_SINGLE)}
    \cup UNION {FpFrames(1, 0, c) : c \in SelectorCmds(FUNC_WRITE) \cup {DoubleCmd} \cup RequestCmds}
    \cup HeadingMsgs

\* what the reassembler is sent: a two-frame command under every sequence id, a
\* three-frame command from every source, frames that declare 0 and 121 bytes
\* (the latter under sequence ids 0 and 5), and a frame of one byte
ShortCmd == Cmd(FUNC_WRITE, PGN_RM_PILOT_MODE, << 4, 4, 64 >>)

LongCmd == Cmd(FUNC_WRITE, PGN_RM_LOCKED_HEADING, << 6, 52, 18 >> \o Fill(7, 255))

AsmPool ==
    UNION {FpFrames(1, seq, ShortCmd) : seq \in 0..7}
    \cup UNION {FpFrames(i, seq, LongCmd) : i \in 1..NumSources, seq \in {1, 6}}
    \cup { Msg(CmdId(1), << 0, 0 >> \o Fill(6, 255), 8),
           Msg(CmdId(1), << 0, 121 >> \o Fill(6, 255), 8),
           Msg(CmdId(1), << 160, 121 >> \o Fill(6, 255), 8),
           Msg(CmdId(1), << 1 >>, 1) }

----------------------------------------------------------------------------
\* Initial state (after setup()) and the actions

pilotVars == << currentMode, headingRef, hdg_deg_now, locked_hdg_deg,
                xte_nm, cog_mag_deg, sog_kn, awa_deg, aws_kn, stw_kn, since, grp,
           st_tx, n2k_tx,
                calls, fed, steps, asm >>
histVars == << rx, rx_run, src_run, prev >>
idVars == << id_in, id_out, fn_in, fn_out >>
fpVars == << fp_payload, fp_frames, fp_pos, fp_out >>

Init ==
    /\ currentMode = PM_STBY
    /\ headingRef = REF_MAG
    /\ hdg_deg_now = 0
    /\ locked_hdg_deg = NaN
    /\ xte_nm = 0
    /\ cog_mag_deg = 0
    /\ sog_kn = 0
    /\ awa_deg = 0
    /\ aws_kn = 0
    /\ stw_kn = 0
    /\ since = [t \in Timers |-> 0]
    /\ grp = gf_reset
    /\ st_tx = << >>
    /\ n2k_tx = << >>
    /\ calls = << >>
    /\ fed = << >>
    /\ steps = << >>
    /\ asm = << >>
    /\ rx = << >>
    /\ rx_run = << >>
    /\ src_run = [a \in Sources |-> << >>]
    /\ prev = [mode |-> PM_STBY, ref |-> REF_MAG, locked |-> NaN, active |-> FALSE,
               sa |-> 255, seq |-> 255, next |-> 0, grp |-> gf_reset,
               tele |-> << 0, 0, 0, 0, 0, 0, 0 >>]
    /\ millis = 0
    /\ id_in = [set |-> FALSE, prio |-> 0, pgn |-> 0, src |-> 0, dst |-> 0]
    /\ id_out = 0
    /\ fn_in = << >>
    /\ fn_out = << >>
    /\ fp_payload = << >>
    /\ fp_frames = << >>
    /\ fp_pos = 0
    /\ fp_out = << >>

\* the telemetry fields, in the order heading, wind angle, wind speed, speed
\* through water, course, speed over ground, cross-track error
Telemetry == << hdg_deg_now, awa_deg, aws_kn, stw_kn, cog_mag_deg, sog_kn, xte_nm >>

\* the variables after the bridge, in state R, has finished an event
Store(R) ==
    /\ currentMode' = R.currentMode
    /\ headingRef' = R.headingRef
    /\ hdg_deg_now' = R.hdg_deg_now
    /\ locked_hdg_deg' = R.locked_hdg_deg
    /\ xte_nm' = R.xte_nm
    /\ cog_mag_deg' = R.cog_mag_deg
    /\ sog_kn' = R.sog_kn
    /\ awa_deg' = R.awa_deg
    /\ aws_kn' = R.aws_kn
    /\ stw_kn' = R.stw_kn
    /\ since' = R.since
    /\ grp' = R.grp
    /\ st_tx' = R.st_tx
    /\ n2k_tx' = R.n2k_tx
    /\ calls' = R.calls
    /\ fed' = R.fed
    /\ steps' = R.steps
    /\ asm' = R.asm

\* one pass of loop() in which twai_receive returns message m
RxCore(m) ==
    /\ \E R \in {loop(Machine, m, millis)} : Store(R)
    /\ rx' = << m >>
    /\ rx_run' = IF m.extd = 1 /\ extractPGN(m.identifier) = PGN_CMD_GROUP
                 THEN RunStep(RunOpen(rx_run),
                              [sa |-> m.identifier % 256, d |-> m.data,
                               n |-> m.data_length_code])
                 ELSE RunOpen(rx_run)
    /\ prev' = [mode |-> currentMode, ref |-> headingRef, locked |-> locked_hdg_deg,
                active |-> grp.active, sa |-> grp.sa, seq |-> grp.seq,
                next |-> grp.next, grp |-> grp, tele |-> Telemetry]
    /\ UNCHANGED << millis, idVars, fpVars >>

Rx(m) == RxCore(m) /\ UNCHANGED src_run

\* the same pass, with the runs of every source followed apart
RxBySource(m) ==
    /\ RxCore(m)
    /\ src_run' = [a \in Sources |->
                     IF m.extd = 1 /\ extractPGN(m.identifier) = PGN_CMD_GROUP
                        /\ a = m.identifier % 256
                     THEN RunStep(RunOpen(src_run[a]),
                                  [sa |-> a, d |-> m.data, n |-> m.data_length_code])
                     ELSE RunOpen(src_run[a])]

Receive == \E m \in PilotPool : Rx(m)

ReceiveAsm == \E m \in AsmPool : Rx(m)

Next == Receive

Spec == Init /\ [][Next]_vars

NextAsm == ReceiveAsm

SpecAsm == Init /\ [][NextAsm]_vars

\* commands of several sources at once: the three-frame command from every
\* source under sequence id 1 and the two-frame command from the first source
SrcPool ==
    UNION {FpFrames(i, 1, LongCmd) : i \in 1..NumSources} \cup FpFrames(1, 0, ShortCmd)

ReceiveSrc == \E m \in SrcPool : RxBySource(m)

NextSrc == ReceiveSrc

SpecSrc == Init /\ [][NextSrc]_vars

\* Telemetry: every telemetry PGN with valid, "not available" (0xFFFF) and
\* out-of-range fields and with too few bytes, between commands that put the
\* pilot in Auto, lock a heading and open a command assembly
TeleId(pgn) == BusId(2, pgn, 255, RemoteSa(1))

U16(v) == << v % 256, v \div 256 >>

\* 130306: SID, wind speed (0.01 m/s), wind angle (1e-4 rad), reference
WindMsgs ==
    {Msg(TeleId(PGN_WIND), << 0 >> \o U16(f[1]) \o U16(f[2]) \o << 250, 255, 255 >>, f[3]) :
        f \in {<< 500, 7854, 8 >>, << 65535, 65535, 8 >>, << 700, 63000, 6 >>,
               << 900, 10000, 5 >>}}

\* 128259: SID, water speed (0.01 m/s)
StwMsgs ==
    {Msg(TeleId(PGN_STW), << 0 >> \o U16(f[1]) \o Fill(5, 255), f[2]) :
        f \in {<< 300, 8 >>, << 65535, 8 >>, << 400, 2 >>}}

\* 129026 as the bridge reads it: bytes 1..2 course, bytes 5..6 speed
CogSogMsgs ==
    {Msg(TeleId(PGN_COGSOG),
         << 0 >> \o U16(f[1]) \o << 255, 255 >> \o U16(f[2]) \o << 255 >>, f[3]) :
        f \in {<< 15708, 250, 8 >>, << 65535, 65535, 8 >>, << 20000, 350, 6 >>}}

\* 129283 as the bridge reads it: a float in bytes 0..3 (463.0, -463.0, 0.5 m)
XteMsgs ==
    {Msg(TeleId(PGN_XTE), f \o Fill(4, 255), 8) :
        f \in {<< 0, 128, 231, 67 >>, << 0, 128, 231, 195 >>, << 0, 0, 0, 63 >>}}
    \cup {Msg(TeleId(PGN_XTE), << 0, 128, 231, 67 >> \o Fill(4, 255), 7)}

NavMsgs ==
    {Msg(TeleId(pgn), << 0, 64, 4, 4, 64, 6, 64, 255 >>, 8) :
        pgn \in {PGN_NAVDATA, PGN_ROUTE_WP}}

TelePool == HeadingMsgs \cup WindMsgs \cup StwMsgs \cup CogSogMsgs \cup XteMsgs \cup NavMsgs

TeleCmds ==
    {SingleFrame(1, Cmd(FUNC_SINGLE, PGN_RM_PILOT_MODE, << 6, 64, 255 >>)),
     SingleFrame(1, Cmd(FUNC_SINGLE, PGN_RM_PILOT_MODE, << 6, 0, 255 >>)),
     FpFrame(1, 0, 0, ShortCmd)}

ReceiveTele == \E m \in TelePool : Rx(m)

ReceiveTeleCmd == \E m \in TeleCmds : Rx(m)

NextTele == ReceiveTele \/ ReceiveTeleCmd

SpecTele == Init /\ [][NextTele]_vars

\* The control loop in time: passes of loop() with and without a received
\* frame, and the clock moving on by TickMs between passes.  Of millis() only
\* bits 5..7 are read (by n2k_send_fast), so the clock is kept modulo ClockWrap.
TickMs == 4 * 256

ClockWrap == 2 ^ 8

\* the period of each timer of loop(), as written in its comparisons
Period == [RM |-> 1000, AP |-> 1000, ST |-> 1000, Announce |-> 15000, HB |-> 3000,
           PI |-> 2000]

\* the state with the histories of the last event as they are
Current ==
    [Machine EXCEPT !.st_tx = st_tx, !.n2k_tx = n2k_tx, !.calls = calls, !.fed = fed,
                    !.steps = steps, !.asm = asm]

Tick ==
    /\ Store([Current EXCEPT
                 !.since = [t \in Timers |-> Min2(since[t] + TickMs, Period[t] + 1)]])
    /\ millis' = (millis + TickMs) % ClockWrap
    /\ UNCHANGED << histVars, idVars, fpVars >>

\* a pass of loop() in which twai_receive times out
LoopIdle ==
    /\ \E R \in {loop(Machine, NoFrame, millis)} : Store(R)
    /\ rx' = << >>
    /\ rx_run' = RunOpen(rx_run)
    /\ prev' = [mode |-> currentMode, ref |-> headingRef, locked |-> locked_hdg_deg,
                active |-> grp.active, sa |-> grp.sa, seq |-> grp.seq,
                next |-> grp.next, grp |-> grp, tele |-> Telemetry]
    /\ UNCHANGED << millis, src_run, idVars, fpVars >>

\* the commands received meanwhile: the Auto and the Standby button
LoopPool ==
    {SingleFrame(1, Cmd(FUNC_SINGLE, PGN_RM_PILOT_MODE, << 6, code, 255 >>)) :
        code \in {64, 0}}

LoopRx == \E m \in LoopPool : Rx(m)

NextLoop == LoopRx \/ LoopIdle \/ Tick

\* Start-up: setup() after a reset, reaching its first transmission when
\* millis() is ms (the delay(150) at its top is over; the time the drivers take
\* to install varies)
BootTimes == 150..(150 + 255)

\* setup() from the identity frames on, begun at time ms, on the zeroed globals
setup(M, ms) ==
    LET M1 == announce(M, ms)
        M2 == [M1 EXCEPT !.currentMode = PM_STBY, !.headingRef = REF_MAG,
                         !.locked_hdg_deg = NaN]
        M3 == send_127237(M2, SM_STANDBY, M2.headingRef, 0, ms + AnnounceMs)
    IN  send_127250(M3, M3.hdg_deg_now, M3.headingRef)

\* the globals as the C++ initialisers leave them
Reset ==
    [currentMode |-> PM_STBY, headingRef |-> REF_MAG, hdg_deg_now |-> 0,
     locked_hdg_deg |-> NaN, xte_nm |-> 0, cog_mag_deg |-> 0, sog_kn |-> 0,
     awa_deg |-> 0, aws_kn |-> 0, stw_kn |-> 0, since |-> [t \in Timers |-> 0],
     grp |-> gf_reset,
     st_tx |-> << >>, n2k_tx |-> << >>, calls |-> << >>, fed |-> << >>,
     steps |-> << >>, asm |-> << >>]

Boot ==
    /\ millis = 0
    /\ \E ms \in BootTimes :
          /\ Store(setup(Reset, ms))
          /\ millis' = ms + AnnounceMs + FastMs(21)
    /\ UNCHANGED << histVars, idVars, fpVars >>

\* the power is cut or the chip is reset: the globals and millis() start again
PowerCycle ==
    /\ millis # 0
    /\ Store(Reset)
    /\ millis' = 0
    /\ UNCHANGED << histVars, idVars, fpVars >>

NextBoot == Boot \/ PowerCycle

\* setup() begins to transmit when its delay(150) is over
SetupMs == 150

\* the state in which loop() is first called: setup() has run, its frames have
\* been handed to the driver, and every timer still holds 0
InitLoop ==
    \E B \in {setup(Reset, SetupMs)} :
        /\ currentMode = B.currentMode
        /\ headingRef = B.headingRef
        /\ hdg_deg_now = B.hdg_deg_now
        /\ locked_hdg_deg = B.locked_hdg_deg
        /\ xte_nm = B.xte_nm
        /\ cog_mag_deg = B.cog_mag_deg
        /\ sog_kn = B.sog_kn
        /\ awa_deg = B.awa_deg
        /\ aws_kn = B.aws_kn
        /\ stw_kn = B.stw_kn
        /\ since = [t \in Timers |-> Min2(SetupMs + AnnounceMs + FastMs(21), Period[t] + 1)]
        /\ grp = B.grp
        /\ st_tx = B.st_tx
        /\ n2k_tx = B.n2k_tx
        /\ calls = << >>
        /\ fed = << >>
        /\ steps = << >>
        /\ asm = << >>
        /\ rx = << >>
        /\ rx_run = << >>
        /\ src_run = [a \in Sources |-> << >>]
        /\ prev = [mode |-> PM_STBY, ref |-> REF_MAG, locked |-> NaN, active |-> FALSE,
                   sa |-> 255, seq |-> 255, next |-> 0, grp |-> gf_reset,
                   tele |-> << 0, 0, 0, 0, 0, 0, 0 >>]
        /\ millis = (SetupMs + AnnounceMs + FastMs(21)) % ClockWrap
        /\ id_in = [set |-> FALSE, prio |-> 0, pgn |-> 0, src |-> 0, dst |-> 0]
        /\ id_out = 0
        /\ fn_in = << >>
        /\ fn_out = << >>
        /\ fp_payload = << >>
        /\ fp_frames = << >>
        /\ fp_pos = 0
        /\ fp_out = << >>

\* loop() is called again for ever, and time passes
SpecLoop ==
    InitLoop /\ [][NextLoop]_vars /\ WF_vars(LoopRx \/ LoopIdle) /\ WF_vars(Tick)

SpecBoot == Init /\ [][NextBoot]_vars

\* Requests and frames to be ignored.
\* ISO requests (59904): for every PGN the bridge sends and for one it does not,
\* addressed to the bridge and to all, with three bytes and with two, between
\* commands that change the mode and lock a heading
IsoPgns == {PGN_ADDR_CLAIM, PGN_PRODUCT_INFO, PGN_PGN_LIST, PGN_CONFIG_INFO,
            PGN_RM_PILOT_MODE, PGN_RM_LOCKED_HEADING, PGN_AP_STATUS, PGN_WIND}

IsoRequest(i, dst, pgn, n) ==
    Msg(BusId(6, PGN_ISO_REQUEST, dst, RemoteSa(i)), Pgn3(pgn), n)

IsoPool ==
    {IsoRequest(i, dst, pgn, 3) : i \in 1..NumSources, dst \in {SA, 255}, pgn \in IsoPgns}
    \cup {IsoRequest(1, SA, pgn, 2) : pgn \in IsoPgns}

IsoCmds ==
    {SingleFrame(1, Cmd(FUNC_SINGLE, PGN_RM_PILOT_MODE, << 6, code, 255 >>)) :
        code \in ModeCodes}

\* what the bridge has no answer to: read-requests (function 1) for the same
\* PGNs, write-commands for PGNs it does not take, selector and button patterns
\* with codes it does not know (0x33, and the pattern bytes 0x04 and 0x06
\* themselves), and frames of PGNs outside the receive switch
UnknownCodes == {UnknownCode, 4, 6}

IgnoredPool ==
    {FpFrame(1, 0, 0, Cmd(FUNC_REQUEST, pgn, << >>)) : pgn \in IsoPgns}
    \cup {SingleFrame(1, Cmd(FUNC_SINGLE, pgn, par)) :
            pgn \in {PGN_PRODUCT_INFO, PGN_AP_STATUS},
            par \in {<< 4, 4, 64 >>, << 6, 64, 255 >>}}
    \cup {SingleFrame(1, Cmd(FUNC_SINGLE, PGN_RM_PILOT_MODE, << 4, 4, c >>)) : c \in UnknownCodes}
    \cup {SingleFrame(1, Cmd(FUNC_SINGLE, PGN_RM_PILOT_MODE, << 6, c, 255 >>)) : c \in UnknownCodes}
    \cup {Msg(BusId(6, pgn, 255, RemoteSa(1)), << 4, 4, 64, 6, 64, 255, 6, 0 >>, 8) :
            pgn \in {PGN_ISO_ACK, PGN_HEARTBEAT, PGN_RM_PILOT_MODE, PGN_AP_STATUS}}

ReceiveIso == \E m \in IsoPool : Rx(m)

ReceiveIgnored == \E m \in IgnoredPool : Rx(m)

ReceiveIsoCmd == \E m \in IsoCmds : Rx(m)

NextIso == ReceiveIso \/ ReceiveIgnored \/ ReceiveIsoCmd

SpecIso == Init /\ [][NextIso]_vars

\* Keystrokes on their own: st_press for every uint8_t code
KeyEncode ==
    /\ \E code \in 0..255 :
          /\ fn_in' = << "st_press", code >>
          /\ fn_out' = st_press(Reset, code).st_tx
    /\ UNCHANGED << pilotVars, histVars, millis, fpVars, id_in, id_out >>

NextKey == KeyEncode

SpecKey == Init /\ [][NextKey]_vars

----------------------------------------------------------------------------
\* The navigation datagram on its own: st_send_nav_0x85 applied once to a
\* cross-track error, a bearing, a distance and the track flag

\* k half degrees as a heading
HalfDegrees(k) == k * 87266 + (k * 4625 + 5000) \div 10000

\* cross-track errors in steps of 0.01 nm up to 41 nm on both sides, and 100 nm
NavXte == {10 * k : k \in (0 - 4100)..4100} \cup {0 - 100000, 100000}

\* distances in steps of 0.01 nm below 10 nm, of 0.1 nm up to 409.5 nm, and
\* three beyond
NavDist ==
    {10 * k : k \in 0..999} \cup {100 * k : k \in 100..4095}
        \cup {409600, 500000, 1000000}

\* the fixture: -0.25 nm, 183.5 degrees, 4.30 nm
FixXte == 0 - 250
FixBrg == 2 * 183 + 1
FixDist == 10 * 430

NavInputs ==
    (NavXte \X {FixBrg} \X {FixDist} \X BOOLEAN)
        \cup ({FixXte} \X (0..719) \X {FixDist} \X {TRUE})
        \cup ({FixXte, 0 - FixXte} \X {FixBrg} \X NavDist \X {TRUE})

NavEncode ==
    /\ fn_in = << >>
    /\ \E a \in NavInputs :
          /\ fn_in' = << "st_send_nav_0x85", a[1], a[2], a[3], a[4] >>
          /\ fn_out' = st_send_nav_0x85(Reset, a[1], HalfDegrees(a[2]), a[3], a[4]).st_tx
    /\ UNCHANGED << pilotVars, histVars, millis, fpVars, id_in, id_out >>

NextNav == NavEncode

SpecNav == Init /\ [][NextNav]_vars

----------------------------------------------------------------------------
\* The NAME on its own: the packing of buildNAME() applied once to field values
\* that fit their widths, the configured ones among them

NameValues ==
    [unique : {0, 1, N2K_UNIQUE, 2 ^ 21 - 1},
     mfg : {0, N2K_MFG, 2 ^ 11 - 1},
     dev_inst : {N2K_DEV_INST, 5, 7},
     func_inst : {N2K_FUNC_INST, 31},
     func : {0, N2K_FUNC, 255},
     one : {1},
     dev_class : {1, N2K_DEV_CLASS, 127},
     sys_inst : {0},
     ind_gr : {0, N2K_IND_GR, 7},
     aac : {0, 1}]

NameEncode ==
    /\ fn_in = << >>
    /\ \E F \in NameValues :
          /\ fn_in' = << "buildNAME", F >>
          /\ fn_out' = buildNAME_of(F)
    /\ UNCHANGED << pilotVars, histVars, millis, fpVars, id_in, id_out >>

NextName == NameEncode

SpecName == Init /\ [][NextName]_vars

----------------------------------------------------------------------------
\* The switch bank sketch (src/xboxcontroller.ino from line 1019): eight relays
\* driven by channelMask, 127502 control in, 127501 status out

CHANNEL_COUNT == 8
SRC_ADDR == 35
PRIORITY_DEFAULT == 3
BANK_INSTANCE == 0
PGN_SWITCH_STATUS == 127501
PGN_SWITCH_CONTROL == 127502
PGN_SWITCH_LABEL == 127504

\* SWITCH_LABELS, as character codes
SWITCH_LABELS ==
    << << 78, 65, 86 >>, << 67, 65, 66, 73, 78 >>, << 65, 78, 67, 72, 79, 82 >>,
       << 66, 73, 76, 71, 69 >>, << 87, 73, 80, 69, 82 >>,
       << 83, 84, 69, 82, 69, 79 >>, << 68, 69, 67, 75 >>, << 83, 80, 65, 82, 69 >> >>

make_can_id(prio, pgn, src) == prio * 2 ^ 26 + pgn * 256 + src

\* Variant of pgn_from_id that keeps the data page bit, (id >> 8) & 0x1FFFF
pgn_from_id_with_data_page(id) ==
    LET PF == (id \div 65536) % 256
        DP == (id \div 2 ^ 24) % 2
        PS == (id \div 256) % 256
    IN  IF PF >= 240 THEN DP * 65536 + PF * 256 + PS ELSE DP * 65536 + PF * 256

\* pgn_from_id: PF and PS only
pgn_from_id(id) ==
    LET PF == (id \div 65536) % 256
        PS == (id \div 256) % 256
    IN  IF PF >= 240 THEN PF * 256 + PS ELSE PF * 256

src_from_id(id) == id % 256

\* make_name(unique_id): the 64 bits, bit 0 the least significant
make_name(unique_id) ==
    [i \in 0..63 |->
        IF NameField(unique_id, 21, 43, i) = 1
           \/ NameField(2046, 11, 32, i) = 1
           \/ NameField(0, 7, 25, i) = 1
           \/ NameField(130, 8, 17, i) = 1
           \/ NameField(0, 1, 16, i) = 1
           \/ NameField(30, 7, 9, i) = 1
           \/ NameField(0, 4, 5, i) = 1
           \/ NameField(4, 3, 2, i) = 1
           \/ NameField(3, 2, 0, i) = 1
        THEN 1 ELSE 0]

\* send_pgn: one frame to the driver
send_pgn(S, pgn, d, prio, src) ==
    [S EXCEPT !.tx = Append(@, [id |-> make_can_id(prio, pgn, src), data |-> d])]

\* send_address_claim, where esp_random() & 0x1FFFFF gave unique_id
send_address_claim(S, unique_id) ==
    send_pgn(S, PGN_ADDR_CLAIM, [i \in 1..8 |-> NameByte(make_name(unique_id), i - 1)],
             6, SRC_ADDR)

send_switch_status(S) ==
    send_pgn(S, PGN_SWITCH_STATUS,
             << BANK_INSTANCE, S.channelMask % 256, (S.channelMask \div 256) % 256,
                (S.channelMask \div 65536) % 256, (S.channelMask \div 2 ^ 24) % 256,
                255, 255, 255 >>,
             PRIORITY_DEFAULT, SRC_ADDR)

send_switch_label_short(S, bank, ch, label) ==
    send_pgn(S, PGN_SWITCH_LABEL,
             << bank, ch >> \o [i \in 1..6 |-> IF i <= Len(label) THEN label[i] ELSE 0],
             6, SRC_ADDR)

RECURSIVE send_labels_from(_, _)
send_labels_from(S, ch) ==
    IF ch >= CHANNEL_COUNT THEN S
    ELSE send_labels_from(send_switch_label_short(S, BANK_INSTANCE, ch,
                                                  SWITCH_LABELS[ch + 1]), ch + 1)

send_all_labels(S) == send_labels_from(S, 0)

\* a | b and a & ~b on the channel bits
MaskOr(a, b) ==
    LET bit(k) == IF Bit(a, k) = 1 \/ Bit(b, k) = 1 THEN 2 ^ k ELSE 0
    IN  bit(0) + bit(1) + bit(2) + bit(3) + bit(4) + bit(5) + bit(6) + bit(7)

MaskAndNot(a, b) ==
    LET bit(k) == IF Bit(a, k) = 1 /\ Bit(b, k) = 0 THEN 2 ^ k ELSE 0
    IN  bit(0) + bit(1) + bit(2) + bit(3) + bit(4) + bit(5) + bit(6) + bit(7)

\* handle_switch_control(d, len); the masks are cut to CHANNEL_COUNT bits
\* before they are used, so only the bits below 2^24 of setMask are kept here
handle_switch_control(S, d, len) ==
    IF len < 8 \/ d[1] # BANK_INSTANCE THEN S
    ELSE LET setMask == (d[2] + 256 * d[3] + 65536 * d[4]) % 2 ^ CHANNEL_COUNT
             clrMask == (d[6] + 256 * d[7] + 65536 * d[8]) % 2 ^ CHANNEL_COUNT
             newMask == MaskAndNot(MaskOr(S.channelMask, setMask), clrMask)
         IN  IF newMask # S.channelMask
             THEN send_switch_status([S EXCEPT !.channelMask = newMask,
                                               !.relays = [i \in 0..(CHANNEL_COUNT - 1) |->
                                                              Bit(newMask, i)]])
             ELSE S

\* handle_iso_request(id, d, len)
handle_iso_request(S, id, d, len, unique_id) ==
    IF len < 3 THEN S
    ELSE IF d[1] + 256 * d[2] + 65536 * d[3] = PGN_ADDR_CLAIM
         THEN send_address_claim(S, unique_id) ELSE S

\* process_rx(), where fr is the frame twai_receive gave within 5 ms
process_rx(S, fr, unique_id) ==
    IF fr.extd = 0 THEN S
    ELSE IF pgn_from_id(fr.identifier) = PGN_SWITCH_CONTROL
         THEN handle_switch_control(S, fr.data, fr.data_length_code)
         ELSE IF pgn_from_id(fr.identifier) = PGN_ISO_REQUEST
              THEN handle_iso_request(S, fr.identifier, fr.data, fr.data_length_code,
                                      unique_id)
              ELSE S

\* setup() of the sketch: relays off, address claim, status, labels.  claimed
\* keeps the NAME bytes of the address claim setup sent.
sw_setup(unique_id) ==
    send_all_labels(send_switch_status(send_address_claim(
        [channelMask |-> 0, relays |-> [i \in 0..(CHANNEL_COUNT - 1) |-> 0],
         tx |-> << >>, was |-> 0, answered |-> 0,
         claimed |-> [i \in 1..8 |-> NameByte(make_name(unique_id), i - 1)]],
        unique_id)))

\* loop() of the sketch: process_rx, then the status and the labels when their
\* periods are over.  was is channelMask before the pass, answered the number
\* of frames process_rx sent.
sw_loop(S, fr, unique_id, statusDue, labelsDue) ==
    LET S0 == [S EXCEPT !.tx = << >>, !.was = S.channelMask]
        S1 == process_rx(S0, fr, unique_id)
        S2 == [S1 EXCEPT !.answered = Len(S1.tx)]
        S3 == IF statusDue THEN send_switch_status(S2) ELSE S2
    IN  IF labelsDue THEN send_all_labels(S3) ELSE S3

\* what esp_random() & 0x1FFFFF may give
RandomIds == {1, 2 ^ 21 - 1}

SwMasks == {0, 1, 129}

\* frames on the bus: switch control and status with the data page bit, the
\* same PF and PS without it, a standard frame, and ISO requests to this node
\* and to all
SwFrames ==
    {[extd |-> 1, identifier |-> make_can_id(PRIORITY_DEFAULT, pgn, 17),
      data_length_code |-> 8, data |-> << bank, s, 0, 0, 0, c, 0, 0 >>] :
        pgn \in {PGN_SWITCH_CONTROL, PGN_SWITCH_STATUS, PGN_SWITCH_CONTROL - 65536},
        bank \in {BANK_INSTANCE, 1}, s \in SwMasks, c \in SwMasks}
    \cup
    {[extd |-> 0, identifier |-> 2 ^ 8 + 17, data_length_code |-> 8,
      data |-> << BANK_INSTANCE, 1, 0, 0, 0, 0, 0, 0 >>]}
    \cup
    {[extd |-> 1, identifier |-> make_can_id(6, PGN_ISO_REQUEST + dst, 17),
      data_length_code |-> 3, data |-> << p % 256, (p \div 256) % 256, p \div 65536 >>] :
        dst \in {SRC_ADDR, 255}, p \in {PGN_ADDR_CLAIM, PGN_SWITCH_STATUS}}

SwSetup ==
    /\ fn_in = << >>
    /\ \E u \in RandomIds :
          /\ fn_in' = << "setup" >>
          /\ fn_out' = sw_setup(u)
    /\ UNCHANGED << pilotVars, histVars, millis, fpVars, id_in, id_out >>

SwLoop ==
    /\ fn_in # << >>
    /\ \E fr \in SwFrames \cup {NoFrame}, u \in RandomIds, sd \in BOOLEAN, ld \in BOOLEAN :
          /\ fn_in' = << "loop", fr >>
          /\ fn_out' = sw_loop(fn_out, fr, u, sd, ld)
    /\ UNCHANGED << pilotVars, histVars, millis, fpVars, id_in, id_out >>

NextSwitch == SwSetup \/ SwLoop

SpecSwitch == Init /\ [][NextSwitch]_vars

----------------------------------------------------------------------------
\* The motor telemetry bridge (src/Motor_read_old.ino): four tasks around the
\* shared record telem and the mutex mtx.  Each step below is one access to
\* telem or one call on mtx; the tasks interleave step by step (EV-RX and
\* N2K-RX run on core 1, SAMPLE and OUTPUT on core 0).

MotorTasks == {"EV", "N2K", "SAMPLE", "OUTPUT"}

\* 0x1DB frames as the raw voltage (0.5 V) and the raw current (0.5 A) they carry
PwrFrames == {[rawV |-> 600, rawA |-> 0 - 40], [rawV |-> 720, rawA |-> 100]}

\* kW = (A * V) / 1000 with A = -(rawA / 2) and V = rawV * 0.5, here in 0.25 W
kW_of(f) == (0 - f.rawA) * f.rawV

\* 128259 frames as the raw speed (0.01 m/s) they carry
StwRaws == {0, 257}

\* setup(): the record as constructed, the mutex free, every task at the top
\* of its loop
motor_setup ==
    [mtx |-> "free",
     pc |-> [t \in MotorTasks |-> "top"],
     ev |-> [rawV |-> 0, rawA |-> 0],
     telem |-> [V |-> 0, kW |-> 0, t_1DB |-> 0, STW_kn |-> 0, vHist |-> 0],
     seen |-> [V |-> 0, kW |-> 0]]

\* taskEvRx, the ID_PWR branch: the frame is decoded into locals, then
\* xSemaphoreTake, telem.V, the other fields, xSemaphoreGive
ev_step(S, f) ==
    CASE S.pc["EV"] = "top"  -> [S EXCEPT !.ev = f, !.pc["EV"] = "take"]
      [] S.pc["EV"] = "take" -> [S EXCEPT !.mtx = "EV", !.pc["EV"] = "V"]
      [] S.pc["EV"] = "V"    -> [S EXCEPT !.telem.V = S.ev.rawV, !.pc["EV"] = "kW"]
      [] S.pc["EV"] = "kW"   -> [S EXCEPT !.telem.kW = kW_of(S.ev),
                                          !.telem.t_1DB = 1 - @, !.pc["EV"] = "give"]
      [] S.pc["EV"] = "give" -> [S EXCEPT !.mtx = "free", !.pc["EV"] = "top"]

\* Variant of ev_step that never takes the mutex
ev_step_unlocked(S, f) ==
    CASE S.pc["EV"] = "top"  -> [S EXCEPT !.ev = f, !.pc["EV"] = "take"]
      [] S.pc["EV"] = "take" -> [S EXCEPT !.pc["EV"] = "V"]
      [] S.pc["EV"] = "V"    -> [S EXCEPT !.telem.V = S.ev.rawV, !.pc["EV"] = "kW"]
      [] S.pc["EV"] = "kW"   -> [S EXCEPT !.telem.kW = kW_of(S.ev),
                                          !.telem.t_1DB = 1 - @, !.pc["EV"] = "give"]
      [] S.pc["EV"] = "give" -> [S EXCEPT !.pc["EV"] = "top"]

\* taskN2k with a 128259 frame: n2kHandleSTW writes telem.STW_kn, no call on mtx
n2k_step(S, raw) ==
    IF S.pc["N2K"] = "top" THEN [S EXCEPT !.pc["N2K"] = "STW"]
    ELSE [S EXCEPT !.telem.STW_kn = raw, !.pc["N2K"] = "top"]

\* taskSampler: telem.vHist.push(telem.V), no call on mtx
sampler_step(S) ==
    IF S.pc["SAMPLE"] = "top" THEN [S EXCEPT !.pc["SAMPLE"] = "push"]
    ELSE [S EXCEPT !.telem.vHist = S.telem.V, !.pc["SAMPLE"] = "top"]

\* taskOutput: Serial.print(telem.V), later Serial.print(telem.kW), no call on
\* mtx; seen is what the line printed
output_step(S) ==
    CASE S.pc["OUTPUT"] = "top" -> [S EXCEPT !.pc["OUTPUT"] = "V"]
      [] S.pc["OUTPUT"] = "V"   -> [S EXCEPT !.seen.V = S.telem.V, !.pc["OUTPUT"] = "kW"]
      [] S.pc["OUTPUT"] = "kW"  -> [S EXCEPT !.seen.kW = S.telem.kW,
                                             !.pc["OUTPUT"] = "done"]
      [] S.pc["OUTPUT"] = "done" -> [S EXCEPT !.pc["OUTPUT"] = "top"]

MotorSetup ==
    /\ fn_in = << >>
    /\ fn_in' = << "setup" >>
    /\ fn_out' = motor_setup
    /\ UNCHANGED << pilotVars, histVars, millis, fpVars, id_in, id_out >>

IsMotor == fn_in # << >> /\ fn_in[1] \in {"setup"} \cup MotorTasks

\* xSemaphoreTake(mtx, portMAX_DELAY) returns only when the mutex is free
TaskEvRx ==
    /\ IsMotor
    /\ fn_out.pc["EV"] = "take" => fn_out.mtx = "free"
    /\ \E f \in PwrFrames :
          /\ fn_in' = << "EV" >>
          /\ fn_out' = ev_step(fn_out, f)
    /\ UNCHANGED << pilotVars, histVars, millis, fpVars, id_in, id_out >>

TaskN2k ==
    /\ IsMotor
    /\ \E raw \in StwRaws :
          /\ fn_in' = << "N2K" >>
          /\ fn_out' = n2k_step(fn_out, raw)
    /\ UNCHANGED << pilotVars, histVars, millis, fpVars, id_in, id_out >>

TaskSampler ==
    /\ IsMotor
    /\ fn_in' = << "SAMPLE" >>
    /\ fn_out' = sampler_step(fn_out)
    /\ UNCHANGED << pilotVars, histVars, millis, fpVars, id_in, id_out >>

TaskOutput ==
    /\ IsMotor
    /\ fn_in' = << "OUTPUT" >>
    /\ fn_out' = output_step(fn_out)
    /\ UNCHANGED << pilotVars, histVars, millis, fpVars, id_in, id_out >>

NextMotor == MotorSetup \/ TaskEvRx \/ TaskN2k \/ TaskSampler \/ TaskOutput

SpecMotor == Init /\ [][NextMotor]_vars

----------------------------------------------------------------------------
\* The CAN controller under the autopilot bridge.  The driver is RUNNING after
\* twai_start(); when the controller goes bus-off the driver stays in BUS_OFF
\* until twai_initiate_recovery() and twai_start() are called.  The bridge
\* calls twai_driver_install, twai_start, twai_receive and twai_transmit only.

SentWrap == 2 ^ 4
RefusedCap == 0 + 3

\* setup(): twai_driver_install and twai_start
twai_start == [state |-> "RUNNING", got |-> NoFrame, sent |-> 0, refused |-> 0]

\* twai_receive(&m, 10 ms): a frame when the controller is on the bus and one
\* came, a timeout otherwise
twai_receive(D, m) ==
    [D EXCEPT !.got = IF D.state = "RUNNING" THEN m ELSE NoFrame]

\* twai_transmit(&msg, 50 ms) as twai_tx calls it: queued when RUNNING,
\* refused otherwise; the senders ignore what twai_tx returns
twai_transmit(D) ==
    IF D.state = "RUNNING" THEN [D EXCEPT !.sent = (@ + 1) % SentWrap]
    ELSE [D EXCEPT !.refused = Min2(@ + 1, RefusedCap)]

\* Variant of twai_transmit that recovers and restarts a driver found bus-off
twai_transmit_recovering(D) ==
    IF D.state = "RUNNING" THEN [D EXCEPT !.sent = (@ + 1) % SentWrap]
    ELSE [D EXCEPT !.state = "RUNNING", !.refused = Min2(@ + 1, RefusedCap)]

\* one pass of loop() as the driver sees it: twai_receive, then one
\* twai_transmit for every frame the pass sends
RECURSIVE bus_sends(_, _)
bus_sends(D, n) == IF n = 0 THEN D ELSE bus_sends(twai_transmit(D), n - 1)

bus_loop(D, m, n) == bus_sends(twai_receive(D, m), n)

BusFrames == LoopPool \cup HeadingMsgs \cup {NoFrame}

IsBus == fn_in # << >> /\ fn_in[1] \in {"twai_start", "loop", "bus-off"}

BusStart ==
    /\ fn_in = << >>
    /\ fn_in' = << "twai_start" >>
    /\ fn_out' = twai_start
    /\ UNCHANGED << pilotVars, histVars, millis, fpVars, id_in, id_out >>

BusLoop ==
    /\ IsBus
    /\ \E m \in BusFrames, n \in 0..2 :
          /\ fn_in' = << "loop" >>
          /\ fn_out' = bus_loop(fn_out, m, n)
    /\ UNCHANGED << pilotVars, histVars, millis, fpVars, id_in, id_out >>

\* the controller's transmit error counter passes 255
BusOff ==
    /\ IsBus
    /\ fn_out.state = "RUNNING"
    /\ fn_in' = << "bus-off" >>
    /\ fn_out' = [fn_out EXCEPT !.state = "BUS_OFF", !.got = NoFrame]
    /\ UNCHANGED << pilotVars, histVars, millis, fpVars, id_in, id_out >>

NextBus == BusStart \/ BusLoop \/ BusOff

\* loop() is called again and again
SpecBus == Init /\ [][NextBus]_vars /\ WF_vars(BusStart) /\ WF_vars(BusLoop)

----------------------------------------------------------------------------
\* Commands addressed to this node, to all nodes and to other nodes

OtherNode == 0 + 80

Destinations == {SA, 255, OtherNode, 0}

DstPool ==
    {Msg(BusId(3, PGN_CMD_GROUP, dst, RemoteSa(1)), c, Len(c)) :
        dst \in Destinations,
        c \in SelectorCmds(FUNC_SINGLE) \cup ButtonCmds(FUNC_SINGLE)
                 \cup HeadingCmds(FUNC_SINGLE)}

ReceiveDst == \E m \in DstPool : Rx(m)

ReceiveDstHeading == \E m \in HeadingMsgs : Rx(m)

NextDst == ReceiveDst \/ ReceiveDstHeading

SpecDst == Init /\ [][NextDst]_vars

-----------------------------------------------------------------------------
\* The Nissan gateway with switch bank, a sketch of its own: identifiers,
\* the address claim, the switch bank frames and the N2K receive task

N2K_SA == 35
N2K_PRIO == 6
N2K_BCAST == 255
PGN_ISO_ADDRESS_CLAIM == 60928
PGN_ENG_DYNAMIC == 127489
PGN_PROP_A == 61184
SW_BANK_INSTANCE == 0
SW_CHANNELS == 16

\* sw_labels[1..SW_CHANNELS], as character codes
sw_labels ==
    << << 78, 65, 86 >>, << 65, 78, 67, 72, 79, 82 >>, << 67, 65, 66, 73, 78 >>,
       << 68, 69, 67, 75 >>, << 66, 73, 76, 71, 69 >>, << 87, 73, 80, 69, 82 >>,
       << 70, 65, 78 >>, << 80, 85, 77, 80 >>,
       << 65, 85, 88, 49 >>, << 65, 85, 88, 50 >>, << 65, 85, 88, 51 >>,
       << 65, 85, 88, 52 >>, << 65, 85, 88, 53 >>, << 65, 85, 88, 54 >>,
       << 65, 85, 88, 55 >>, << 65, 85, 88, 56 >> >>

\* n2kId: PF >= 240 puts the low byte of the PGN in the PS field, a smaller
\* PF puts da_for_pdu1 there
n2kId(prio, pgn, sa, da_for_pdu1) ==
    LET PF == (pgn \div 256) % 256
        DP == (pgn \div 65536) % 2
    IN  IF PF >= 240
        THEN prio * 2 ^ 26 + DP * 2 ^ 24 + PF * 65536 + (pgn % 256) * 256 + sa
        ELSE prio * 2 ^ 26 + DP * 2 ^ 24 + PF * 65536 + da_for_pdu1 * 256 + sa

\* idToPGN: (id >> 8) & 0x1FFFF00 for PF < 240, (id >> 8) & 0x1FFFF otherwise
idToPGN(id) ==
    LET PF == (id \div 65536) % 256
        v  == id \div 256
    IN  IF PF < 240 THEN ((v \div 256) % 2 ^ 17) * 256 ELSE v % 2 ^ 17

idToDA(id) == (id \div 256) % 256
idToSA(id) == id % 256

\* n2kTransmit on a gateway whose N2K controller started: one frame to the
\* driver
n2kTransmit(G, pgn, payload, len, da_for_pdu1) ==
    [G EXCEPT !.tx = Append(@, [id |-> n2kId(N2K_PRIO, pgn, N2K_SA, da_for_pdu1),
                                len |-> len, data |-> payload])]

\* buildNAME of the gateway, as 64 bits
gw_buildNAME ==
    [i \in 0..63 |->
        IF NameField(1193046, 21, 0, i) = 1
           \/ NameField(2046, 11, 21, i) = 1
           \/ NameField(0, 7, 32, i) = 1
           \/ NameField(130, 8, 39, i) = 1
           \/ NameField(25, 7, 47, i) = 1
           \/ NameField(0, 4, 54, i) = 1
           \/ NameField(4, 3, 58, i) = 1
           \/ NameField(0, 1, 63, i) = 1
        THEN 1 ELSE 0]

n2kSend60928_AddressClaim(G) ==
    n2kTransmit(G, PGN_ISO_ADDRESS_CLAIM,
                [i \in 1..8 |-> NameByte(G.N2K_NAME, i - 1)], 8, N2K_BCAST)

n2kSend127501_Status(G, bankInstance, bits) ==
    n2kTransmit(G, PGN_SWITCH_STATUS,
                << bankInstance, bits % 256, (bits \div 256) % 256,
                   (bits \div 65536) % 256, (bits \div 2 ^ 24) % 256, 255, 255, 255 >>,
                8, N2K_BCAST)

\* n2kSend127504_LabelShort: six characters, a blank where the label ended
n2kSend127504_LabelShort(G, bankInstance, channel, six) ==
    n2kTransmit(G, PGN_SWITCH_LABEL,
                << bankInstance, channel >>
                \o [i \in 1..6 |-> IF i <= Len(six) THEN six[i] ELSE 32],
                8, N2K_BCAST)

RECURSIVE gw_labels_from(_, _)
gw_labels_from(G, ch) ==
    IF ch > SW_CHANNELS THEN G
    ELSE gw_labels_from(n2kSend127504_LabelShort(G, SW_BANK_INSTANCE, ch, sw_labels[ch]),
                        ch + 1)

\* a | b and a & ~b on the bits of the state word that SW_CHANNELS leaves
RECURSIVE BitsOr(_, _, _)
BitsOr(a, b, n) ==
    IF n = 0 THEN 0
    ELSE (IF a % 2 = 1 \/ b % 2 = 1 THEN 1 ELSE 0) + 2 * BitsOr(a \div 2, b \div 2, n - 1)

RECURSIVE BitsAndNot(_, _, _)
BitsAndNot(a, b, n) ==
    IF n = 0 THEN 0
    ELSE (IF a % 2 = 1 /\ b % 2 = 0 THEN 1 ELSE 0)
         + 2 * BitsAndNot(a \div 2, b \div 2, n - 1)

\* the masks of a 127502 frame, cut to SW_CHANNELS bits
setMask_of(db) == (db[2] + 256 * db[3]) % 2 ^ SW_CHANNELS
clrMask_of(db) == (db[6] + 256 * db[7]) % 2 ^ SW_CHANNELS

\* handle127502_Control, run without another task in between
handle127502_Control(G, db, len) ==
    IF len < 8 \/ db[1] # SW_BANK_INSTANCE THEN G
    ELSE LET was  == G.sw_state_bits
             bits == BitsAndNot(BitsOr(was, setMask_of(db), SW_CHANNELS),
                                clrMask_of(db), SW_CHANNELS)
             H    == [G EXCEPT !.sw_state_bits = bits]
         IN  IF bits # was THEN n2kSend127501_Status(H, SW_BANK_INSTANCE, bits) ELSE H

\* One received frame in taskN2kRx
gw_rx(G, m) ==
    IF m.extd = 0 THEN G
    ELSE LET pgn == idToPGN(m.id)
             da  == idToDA(m.id)
             db  == m.data
             len == m.len
         IN  IF pgn = PGN_ISO_REQUEST /\ (da = 35 \/ da = N2K_BCAST)
             THEN IF len >= 3
                  THEN LET reqPGN == db[1] + 256 * db[2] + 65536 * db[3]
                       IN  IF reqPGN = PGN_ISO_ADDRESS_CLAIM
                           THEN n2kSend60928_AddressClaim(G)
                           ELSE IF reqPGN = PGN_SWITCH_STATUS
                           THEN n2kSend127501_Status(G, SW_BANK_INSTANCE, G.sw_state_bits)
                           ELSE IF reqPGN = PGN_SWITCH_LABEL
                           THEN gw_labels_from(G, 1)
                           ELSE G
                  ELSE G
             ELSE IF pgn = PGN_SWITCH_CONTROL
             THEN handle127502_Control(G, db, len)
             ELSE G

\* setup of the gateway with both controllers started: the NAME, the address
\* claim, the bank status and the labels
gw_setup ==
    LET G0 == [N2K_NAME |-> gw_buildNAME, sw_state_bits |-> 0, tx |-> << >>]
    IN  gw_labels_from(
            n2kSend127501_Status(n2kSend60928_AddressClaim(G0), SW_BANK_INSTANCE, 0), 1)

\* Frames another node sends: every priority, PDU1 and PDU2 PGNs, to the
\* gateway, to all and to a third node
GwPrios == 0..7
GwPgns == {PGN_ISO_REQUEST, PGN_ISO_ADDRESS_CLAIM, PGN_PROP_A,
           PGN_SWITCH_STATUS, PGN_SWITCH_CONTROL}
GwSenders == {0 + 11}
GwDestinations == {N2K_SA, N2K_BCAST, OtherNode}
GwData ==
    { << 0, 238, 0 >>, << 13, 242, 1 >>, << 16, 242, 1 >>,
      << 0, 5, 0, 0, 0, 0, 0, 0 >>, << 0, 0, 0, 0, 0, 1, 0, 0 >> }

IsGw == fn_in # << >> /\ fn_in[1] \in {"gw-setup", "gw-rx"}

GwSetup ==
    /\ fn_in = << >>
    /\ fn_in' = << "gw-setup" >>
    /\ fn_out' = gw_setup
    /\ UNCHANGED << pilotVars, histVars, millis, fpVars, id_in, id_out >>

\* taskN2kRx takes one frame; tx holds what this pass sent
GwReceive ==
    /\ IsGw
    /\ \E prio \in GwPrios, pgn \in GwPgns, sa \in GwSenders,
          da \in GwDestinations, db \in GwData :
          LET m == [extd |-> 1, id |-> n2kId(prio, pgn, sa, da), len |-> Len(db),
                    data |-> db]
          IN  /\ fn_in' = << "gw-rx", prio, pgn, sa, da, db >>
              /\ fn_out' = gw_rx([fn_out EXCEPT !.tx = << >>], m)
    /\ UNCHANGED << pilotVars, histVars, millis, fpVars, id_in, id_out >>

NextGw == GwSetup \/ GwReceive

SpecGw == Init /\ [][NextGw]_vars

-----------------------------------------------------------------------------
\* The fast-packet transmitter of the gateway.  A frame is the 8 data bytes the
\* driver sends; outside lists the bytes memcpy wrote past data[7], into
\* whatever follows the array in the message structure.

\* min<uint8_t>(a, b)
min_u8(a, b) == IF a < b THEN a ELSE b

\* the frame after memset, the two head bytes and memcpy(&m.data[2], from, n)
fp_frame(pgn, da_for_pdu1, b0, b1, from, n) ==
    [id |-> n2kId(N2K_PRIO, pgn, N2K_SA, da_for_pdu1), len |-> 8,
     data |-> << b0, b1 >> \o [j \in 1..6 |-> IF j <= n THEN from[j] ELSE 0],
     outside |-> [j \in 1..(IF n > 6 THEN n - 6 ELSE 0) |-> from[6 + j]]]

\* the while loop: frames 1..N
RECURSIVE n2kFastPacketTransmit_rest(_, _, _, _, _, _, _, _)
n2kFastPacketTransmit_rest(G, pgn, payload, len, da_for_pdu1, seq, sent, frameNo) ==
    IF sent >= len THEN G
    ELSE LET remain == len - sent
             take   == min_u8(7, remain)
             from   == [j \in 1..take |-> payload[sent + j]]
             m      == fp_frame(pgn, da_for_pdu1, seq, frameNo, from, take)
         IN  n2kFastPacketTransmit_rest([G EXCEPT !.tx = Append(@, m)], pgn, payload,
                                        len, da_for_pdu1, seq, sent + take,
                                        (frameNo + 1) % 256)

\* n2kFastPacketTransmit with every twai_transmit accepted; fp_seq is a byte
n2kFastPacketTransmit(G, pgn, payload, len, da_for_pdu1) ==
    IF len <= 8 THEN n2kTransmit(G, pgn, payload, len, da_for_pdu1)
    ELSE LET seq  == G.fp_seq % 32
             copy == min_u8(6, len)
             m    == fp_frame(pgn, da_for_pdu1, seq, len,
                              [j \in 1..copy |-> payload[j]], copy)
             G1   == [G EXCEPT !.fp_seq = (@ + 1) % 256, !.tx = Append(@, m)]
         IN  n2kFastPacketTransmit_rest(G1, pgn, payload, len, da_for_pdu1, seq, 6, 1)

\* Payloads: the lengths around 8 and around 6 + 7k, and the 26 bytes of
\* n2kSend127489_EngineTemp; byte i is a value that tells the positions apart
GwFpLens == {0 + 5, 2 ^ 3, 0 + 9, 0 + 12, 0 + 13, 0 + 14, 0 + 20, 0 + 26}
GwFpPayload(len, c) == [i \in 1..len |-> (c + 3 * i) % 256]
GwFpFirst == {0 + 1, 0 + 200}

IsGwFp == fn_in # << >> /\ fn_in[1] \in {"fp_seq", "n2kFastPacketTransmit"}

GwFpStart ==
    /\ fn_in = << >>
    /\ fn_in' = << "fp_seq" >>
    /\ fn_out' = [tx |-> << >>, fp_seq |-> 0]
    /\ UNCHANGED << pilotVars, histVars, millis, fpVars, id_in, id_out >>

\* one call; tx holds the frames of this call
GwFpSend ==
    /\ IsGwFp
    /\ \E len \in GwFpLens, c \in GwFpFirst, pgn \in {PGN_ENG_DYNAMIC, PGN_PROP_A} :
          /\ fn_in' = << "n2kFastPacketTransmit", pgn, GwFpPayload(len, c), fn_out.fp_seq >>
          /\ fn_out' = n2kFastPacketTransmit([fn_out EXCEPT !.tx = << >>], pgn,
                                             GwFpPayload(len, c), len, N2K_BCAST)
    /\ UNCHANGED << pilotVars, histVars, millis, fpVars, id_in, id_out >>

NextGwFp == GwFpStart \/ GwFpSend

SpecGwFp == Init /\ [][NextGwFp]_vars

-----------------------------------------------------------------------------
\* The switch state word of the gateway under its two writers.  taskN2kRx has
\* priority 12 and the loop task, which runs the WebSocket handler, a lower
\* one: a received 127502 frame is handled as a whole at any point of the
\* WebSocket command, whose reads and writes of the volatile word are steps
\* of their own.  No lock is taken on either side.

\* the word after {"cmd":"switch","ch":ch,"on":on}
ws_apply(bits, ch, on) ==
    IF on THEN BitsOr(bits, 2 ^ (ch - 1), SW_CHANNELS)
    ELSE BitsAndNot(bits, 2 ^ (ch - 1), SW_CHANNELS)

\* the word after a 127502 frame for this bank
rx_apply(bits, db) ==
    BitsAndNot(BitsOr(bits, setMask_of(db), SW_CHANNELS), clrMask_of(db), SW_CHANNELS)

\* One step of the WebSocket switch command on the state R: pc is the place in
\* the handler, prev its local copy, reg the value loaded for the | or & ~,
\* arg the value loaded for the call
ws_step(R, ch, on) ==
    CASE R.pc = "cmd"   -> IF ch >= 1 /\ ch <= SW_CHANNELS
                           THEN [R EXCEPT !.pc = "prev"] ELSE [R EXCEPT !.pc = "done"]
      [] R.pc = "prev"  -> [R EXCEPT !.prev = R.sw_state_bits, !.pc = "load"]
      [] R.pc = "load"  -> [R EXCEPT !.reg = R.sw_state_bits, !.pc = "store"]
      [] R.pc = "store" -> [R EXCEPT !.sw_state_bits = ws_apply(R.reg, ch, on),
                                     !.pc = "test"]
      [] R.pc = "test"  -> IF R.sw_state_bits # R.prev
                           THEN [R EXCEPT !.pc = "arg"] ELSE [R EXCEPT !.pc = "done"]
      [] R.pc = "arg"   -> [R EXCEPT !.arg = R.sw_state_bits, !.pc = "send"]
      [] R.pc = "send"  -> [n2kSend127501_Status(R, SW_BANK_INSTANCE, R.arg)
                              EXCEPT !.pc = "done"]
      [] OTHER          -> R

RaceBits == {0, 0 + 4}
RaceChannels == {0 + 1, 0 + 3, SW_CHANNELS + 1}
RaceFrames ==
    { << SW_BANK_INSTANCE, 2 ^ 1, 0, 0, 0, 0, 0, 0 >>,
      << SW_BANK_INSTANCE, 0, 0, 0, 0, 2 ^ 2, 0, 0 >>,
      << SW_BANK_INSTANCE, 2 ^ 1, 0, 0, 0, 2 ^ 0, 0, 0 >> }

IsRace == fn_in # << >> /\ fn_in[1] = "sw_state_bits"

\* a command arrives on the WebSocket while a 127502 frame is on its way
RaceStart ==
    /\ fn_in = << >>
    /\ \E b \in RaceBits, ch \in RaceChannels, on \in BOOLEAN, db \in RaceFrames :
          /\ fn_in' = << "sw_state_bits", b, ch, on, db >>
          /\ fn_out' = [sw_state_bits |-> b, tx |-> << >>, pc |-> "cmd", prev |-> 0,
                        reg |-> 0, arg |-> 0, rx |-> "waiting", inside |-> FALSE]
    /\ UNCHANGED << pilotVars, histVars, millis, fpVars, id_in, id_out >>

\* the loop task goes one step on
WsStep ==
    /\ IsRace /\ fn_out.pc # "done"
    /\ fn_out' = ws_step(fn_out, fn_in[3], fn_in[4])
    /\ UNCHANGED << fn_in, pilotVars, histVars, millis, fpVars, id_in, id_out >>

\* taskN2kRx takes the frame and runs handle127502_Control to its end; inside
\* tells that it did so between two steps of the command
RxControl ==
    /\ IsRace /\ fn_out.rx = "waiting"
    /\ fn_out' = [handle127502_Control(fn_out, fn_in[5], Len(fn_in[5]))
                    EXCEPT !.rx = "done",
                           !.inside = fn_out.pc \notin {"cmd", "prev", "done"}]
    /\ UNCHANGED << fn_in, pilotVars, histVars, millis, fpVars, id_in, id_out >>

NextRace == RaceStart \/ WsStep \/ RxControl

SpecRace == Init /\ [][NextRace]_vars

----------------------------------------------------------------------------
\* The SeaTalk transmitter: the UART behind st_write_datagram, with time.
\* Time is counted in units of 1/48 ms, so that one bit at ST_BAUD lasts a
\* whole number of units.

ST_BAUD == 4800

UnitsPerMs == ST_BAUD \div 100

BitTime == (UnitsPerMs * 1000) \div ST_BAUD

\* st_begin: a start bit, 8 data bits, a parity bit and 1 stop bit per byte
ByteTime == (1 + 8 + 1 + 1) * BitTime

\* st_begin: the driver is installed with parity EVEN and nothing to send.
\* fifo holds the bytes written and not yet shifted out, left the time the
\* first of them still needs, wire the bytes that left the pin during the
\* latest call, with the parity they left under, switches the number of bytes
\* in flight at each change of the parity setting during the latest call, and
\* clock the time since lastST was set.
st_begin ==
    [parity |-> "EVEN", fifo |-> << >>, left |-> 0, wire |-> << >>,
     switches |-> << >>, clock |-> 0]

\* time the transmitter needs to become idle
drain_time(U) ==
    IF U.fifo = << >> THEN 0 ELSE U.left + (Len(U.fifo) - 1) * ByteTime

\* the transmitter shifts for d units; a byte that was in flight when the
\* parity setting changed leaves under either parity
RECURSIVE uart_shift(_, _)
uart_shift(U, d) ==
    IF U.fifo = << >> THEN U
    ELSE IF d < U.left THEN [U EXCEPT !.left = @ - d]
    ELSE LET h == Head(U.fifo)
             rest == Tail(U.fifo)
         IN  uart_shift([U EXCEPT !.fifo = rest,
                                  !.left = IF rest = << >> THEN 0 ELSE ByteTime,
                                  !.wire = Append(@, [byte |-> h.byte, idx |-> h.idx,
                                                      parity |-> IF h.amb THEN "EITHER"
                                                                 ELSE U.parity])],
                        d - U.left)

ClockCap == (Period.ST + 1) * UnitsPerMs

elapse(U, d) == [uart_shift(U, d) EXCEPT !.clock = Min2(@ + d, ClockCap)]

\* delay(ms)
delay(U, ms) == elapse(U, ms * UnitsPerMs)

\* uart_set_parity writes the setting at once, whatever is in flight
uart_set_parity(U, p) ==
    IF p = U.parity THEN U
    ELSE [U EXCEPT !.parity = p,
                   !.switches = Append(@, Len(U.fifo)),
                   !.fifo = [i \in 1..Len(@) |->
                                IF i = 1 THEN [@[i] EXCEPT !.amb = TRUE] ELSE @[i]]]

\* uart_write_bytes with no transmit buffer: the bytes are in the hardware
\* FIFO when it returns; from is the position of data[1] in its datagram
uart_write_bytes(U, data, from) ==
    [U EXCEPT !.fifo = @ \o [i \in 1..Len(data) |->
                                [byte |-> data[i], idx |-> from + i - 1, amb |-> FALSE]],
              !.left = IF U.fifo = << >> /\ data # << >> THEN ByteTime ELSE @]

\* uart_wait_tx_done(port, pdMS_TO_TICKS(ms)): returns when the transmitter is
\* idle or when the time is over, whichever comes first
uart_wait_tx_done(U, ms) == elapse(U, Min2(drain_time(U), ms * UnitsPerMs))

\* Variant of uart_wait_tx_done that waits with portMAX_DELAY
uart_wait_tx_done_forever(U, ms) == elapse(U, drain_time(U))

\* st_write_datagram(data, len) on the transmitter
st_write_datagram_wire(U, data) ==
    IF Len(data) = 0 THEN U
    ELSE LET U1 == uart_set_parity(U, "ODD")
             U2 == uart_write_bytes(U1, Take(data, 1), 1)
             U3 == uart_wait_tx_done(U2, 10)
         IN  IF Len(data) > 1
             THEN LET U4 == uart_set_parity(U3, "EVEN")
                      U5 == uart_write_bytes(U4, Drop(data, 1), 2)
                  IN  uart_wait_tx_done(U5, 6)
             ELSE U3

\* st_press(code) on the transmitter: each keystroke is followed by delay(120)
st_press_wire(U, code) ==
    LET p == st_send_keystroke(Reset, code).st_tx[1]
        once(V) == delay(st_write_datagram_wire(V, p), 120)
    IN  once(once(U))

\* the log of the latest call starts empty
NewCall(U) == [U EXCEPT !.wire = << >>, !.switches = << >>]

ST_CODES ==
    {ST_CODE_AUTO, ST_CODE_STANDBY, ST_CODE_PLUS1, ST_CODE_PLUS10,
     ST_CODE_MINUS1, ST_CODE_MINUS10}

UartBegin ==
    /\ fn_in = << >>
    /\ fn_in' = << "st_begin" >>
    /\ fn_out' = st_begin
    /\ UNCHANGED << pilotVars, histVars, millis, fpVars, id_in, id_out >>

\* loop() waits in twai_receive for up to 10 ms
UartReceive ==
    /\ fn_in # << >>
    /\ \E ms \in 0..10 :
          /\ fn_in' = << "twai_receive", ms >>
          /\ fn_out' = delay(NewCall(fn_out), ms)
    /\ UNCHANGED << pilotVars, histVars, millis, fpVars, id_in, id_out >>

\* a keypad command received in this pass presses a key
UartPress ==
    /\ fn_in # << >>
    /\ \E code \in ST_CODES :
          /\ fn_in' = << "st_press", code >>
          /\ fn_out' = st_press_wire(NewCall(fn_out), code)
    /\ UNCHANGED << pilotVars, histVars, millis, fpVars, id_in, id_out >>

\* the track datagram at the end of loop(), when now - lastST > 1000; lastST
\* is set to the time before the datagram is written
UartNav ==
    /\ fn_in # << >>
    /\ fn_out.clock > Period.ST * UnitsPerMs
    /\ \E xte \in {0 - 250, 0}, track \in BOOLEAN :
          /\ fn_in' = << "st_send_nav_0x85", xte, track >>
          /\ fn_out' = st_write_datagram_wire(
                           [NewCall(fn_out) EXCEPT !.clock = 0],
                           st_send_nav_0x85(Reset, xte, 0, dtw_nm, track).st_tx[1])
    /\ UNCHANGED << pilotVars, histVars, millis, fpVars, id_in, id_out >>

NextUart == UartBegin \/ UartReceive \/ UartPress \/ UartNav

SpecUart == Init /\ [][NextUart]_vars

----------------------------------------------------------------------------
\* Building identifiers: n2k_id applied to sampled arguments

\* a PDU2 PGN on the PDU1/PDU2 boundary (format byte 240, group extension 4)
PGN_PF240 == 61440 + 4

IdPgns == {PGN_ADDR_CLAIM, PGN_ISO_REQUEST, PGN_CMD_GROUP, PGN_PRODUCT_INFO,
           PGN_VESSEL_HEAD, PGN_RM_PILOT_MODE, PGN_RM_LOCKED_HEADING, PGN_PF240}

IdAddrs == {0, SA, 255} \cup {RemoteSa(i) : i \in 1..NumSources}

\* a caller that means destination dst builds the identifier; n2k_id has no
\* destination parameter, so dst cannot be passed on
IdEncode ==
    /\ \E prio \in 0..7, pgn \in IdPgns, src \in IdAddrs, dst \in IdAddrs :
          /\ id_in' = [set |-> TRUE, prio |-> prio, pgn |-> pgn, src |-> src, dst |-> dst]
          /\ id_out' = n2k_id(prio, pgn, src)
    /\ UNCHANGED << pilotVars, histVars, millis, fpVars, fn_in, fn_out >>

NextId == IdEncode

SpecId == Init /\ [][NextId]_vars

\* uint8_t priorities, those above 7 too
IdPrios == 0..31 \cup {255}

\* n2k_id with any uint8_t priority
IdEncodeAnyPrio ==
    /\ \E prio \in IdPrios, pgn \in {PGN_CMD_GROUP, PGN_RM_PILOT_MODE},
          src \in {SA, RemoteSa(1)} :
          /\ id_in' = [set |-> TRUE, prio |-> prio, pgn |-> pgn, src |-> src, dst |-> 255]
          /\ id_out' = n2k_id(prio, pgn, src)
    /\ UNCHANGED << pilotVars, histVars, millis, fpVars, fn_in, fn_out >>

NextPrio == IdEncodeAnyPrio

SpecPrio == Init /\ [][NextPrio]_vars

----------------------------------------------------------------------------
\* Fast-packet loop: n2k_send_fast's frames fed to feed_126208

FpLens == {9, 50, 223}

\* the times of transmission; the sequence id is (millis() >> 5) & 7
FpTimes == {0, 100, 250}

FpPayload(len, pat) == [i \in 1..len |-> (11 * i + 101 * pat + len) % 256]

\* a payload is sent once the frames of the previous one have all been fed
FpSend ==
    /\ fp_pos = Len(fp_frames)
    /\ \E len \in FpLens, pat \in 0..(NumPatterns - 1), ms \in FpTimes :
          /\ millis' = ms
          /\ fp_payload' = FpPayload(len, pat)
          /\ fp_frames' = n2k_send_fast(PGN_CMD_GROUP, FpPayload(len, pat), 3, ms)
    /\ fp_pos' = 0
    /\ fp_out' = << >>
    /\ UNCHANGED << pilotVars, histVars, idVars >>

\* the next frame, in order, goes to the reassembler; what it hands over is kept
FpFeed ==
    /\ fp_pos < Len(fp_frames)
    /\ \E R \in {feed_126208(Machine, fp_frames[fp_pos + 1].identifier % 256,
                             fp_frames[fp_pos + 1].data,
                             fp_frames[fp_pos + 1].data_length_code, millis)} :
          /\ Store(R)
          /\ fp_out' = fp_out \o R.fed
    /\ fp_pos' = fp_pos + 1
    /\ UNCHANGED << histVars, millis, idVars, fp_payload, fp_frames >>

NextFP == FpSend \/ FpFeed

SpecFP == Init /\ [][NextFP]_vars

----------------------------------------------------------------------------
\* The fast-packet sender on its own: n2k_send_fast for every payload length

SendLens == 1..223

\* a payload is handed to n2k_send_fast and its frames are kept
SendEncode ==
    /\ fp_frames = << >>
    /\ \E len \in SendLens, pat \in 0..(NumPatterns - 1), ms \in FpTimes :
          /\ millis' = ms
          /\ fp_payload' = FpPayload(len, pat)
          /\ fp_frames' = n2k_send_fast(PGN_CMD_GROUP, FpPayload(len, pat), 3, ms)
    /\ UNCHANGED << pilotVars, histVars, idVars, fp_pos, fp_out >>

\* the frames have left; the sender is idle again
SendDone ==
    /\ fp_frames # << >>
    /\ millis' = 0
    /\ fp_payload' = << >>
    /\ fp_frames' = << >>
    /\ UNCHANGED << pilotVars, histVars, idVars, fp_pos, fp_out >>

NextSend == SendEncode \/ SendDone

SpecSend == Init /\ [][NextSend]_vars

----------------------------------------------------------------------------
\* Properties of the reassembler (checked under SpecAsm)

\* the frame of the last event, as the reassembler sees it
LastFrame == [sa |-> rx[1].identifier % 256, d |-> rx[1].data, n |-> rx[1].data_length_code]

\* the last event was the reception of a 126208 frame with a continuation index
ContinuationRx ==
    /\ rx # << >>
    /\ rx[1].extd = 1
    /\ extractPGN(rx[1].identifier) = PGN_CMD_GROUP
    /\ LastFrame.n >= 2
    /\ FrameFi(LastFrame) # 0

\* C1: feed_126208 hands a command to handle_126208_full only when the byte count
\* has reached the declared total, and then exactly `total` bytes: the in-order
\* concatenation of the payload slices of frames with one source address, one
\* sequence id and the frame indices 0, 1, 2, ...; nothing partial is handed over.
C1_FeedHandsOverOnlyCompleteRuns ==
    fed # << >> =>
        /\ Len(fed) = 1
        /\ RunComplete(asm)
        /\ Len(asm) > 1 => ~RunComplete(SubSeq(asm, 1, Len(asm) - 1))
        /\ \A j \in 1..Len(asm) :
              /\ asm[j].sa = asm[1].sa
              /\ FrameSeq(asm[j]) = FrameSeq(asm[1])
              /\ FrameFi(asm[j]) = j - 1
        /\ Len(fed[1]) = RunTotal(asm)
        /\ fed[1] = RunPayload(asm)

\* C1 witness: a command of three frames has been handed over
C1_Witness == fed # << >> /\ Len(asm) = 3 /\ fed[1] = LongCmd

\* C2: every fast-packet command, under each sequence id 0..7, whose frames arrive
\* in order from one source is reassembled and handed over complete, and no frame
\* of a fast-packet sequence is treated as a single-frame command.
C2_EverySequenceIdIsReassembled ==
    /\ (RunComplete(rx_run) /\ RunTotal(rx_run) <= GRP_BUF_SIZE)
          => fed = << RunPayload(rx_run) >>
    /\ rx_run # << >> => calls = fed

\* C3: a continuation frame whose sequence id, source address or frame index does
\* not match the active assembly discards the assembly and produces no command,
\* and while no assembly is active a continuation frame produces no command.
C3_MismatchDiscardsAssembly ==
    ContinuationRx =>
        /\ (prev.active /\ ( LastFrame.sa # prev.sa \/ FrameSeq(LastFrame) # prev.seq
                             \/ FrameFi(LastFrame) # prev.next ))
              => (~grp.active /\ calls = << >>)
        /\ ~prev.active => calls = << >>

\* C13: reassembly state is kept per source address: a fast-packet command from
\* one source whose frames arrive in order is completed and handed over even
\* when frames of another source come in between.  Stated for the sequence ids
\* 0..4, whose frames all reach feed_126208 (checked under SpecSrc).
C13_PerSourceReassembly ==
    \A a \in Sources :
        ( /\ RunComplete(src_run[a])
          /\ RunTotal(src_run[a]) <= GRP_BUF_SIZE
          /\ FrameSeq(src_run[a][1]) < 5 )
        => fed = << RunPayload(src_run[a]) >>

\* the last event was the reception of a frame with index 0 that declares more
\* bytes than the command buffer holds
OverLengthRx ==
    /\ rx # << >>
    /\ rx[1].extd = 1
    /\ extractPGN(rx[1].identifier) = PGN_CMD_GROUP
    /\ LastFrame.n >= 2
    /\ FrameFi(LastFrame) = 0
    /\ LastFrame.d[2] > GRP_BUF_SIZE

\* C14: a frame-index-0 frame declaring more than 120 bytes resets the
\* reassembler and yields no command, and in every reachable state
\* filled <= total <= 120 within the 120-byte buffer.
C14_OverLengthResetsAndBounds ==
    /\ grp.filled <= grp.total
    /\ grp.total <= GRP_BUF_SIZE
    /\ Len(grp.buf) = GRP_BUF_SIZE
    /\ OverLengthRx => (grp = gf_reset /\ calls = << >> /\ fed = << >>)

----------------------------------------------------------------------------
\* Properties of the pilot mode state machine (checked under Spec)

\* the one command handled in the last event is a write-command for pgn
WriteHandled(pgn) ==
    /\ Len(calls) = 1
    /\ Len(calls[1]) >= 4
    /\ calls[1][1] # 1
    /\ calls[1][2] + 256 * calls[1][3] + 65536 * calls[1][4] = pgn

\* the parameter bytes of that command
Params == Drop(calls[1], 4)

HasSelector(par, sels) ==
    \E i \in 1..(Len(par) - 2) : par[i] = 4 /\ par[i + 1] = 4 /\ par[i + 2] \in sels

HasButton(par) ==
    \E i \in 1..(Len(par) - 2) : par[i] = 6 /\ par[i + 1] \in ModeCodes \cup NudgeCodes

\* the mode a selector value or button code stands for
ModeOfCode(code) ==
    CASE code = 0 -> PM_STBY
      [] code = 64 -> PM_AUTO
      [] code = 1 -> PM_WIND
      [] code = 128 -> PM_TRACK

\* one burst of two 'auto' keystroke datagrams, byte 3 the complement of byte 2
AutoBurst(st) ==
    /\ Len(st) = 2
    /\ \A k \in 1..2 :
          /\ Len(st[k]) = 4
          /\ st[k][1] = 134
          /\ st[k][3] = ST_CODE_AUTO
          /\ st[k][4] = 255 - st[k][3]

\* C4 as stated: from Standby with heading h, a write-command for the pilot-mode
\* PGN whose parameters contain the Auto selector 04 04 40 and no button pattern
\* leaves mode Auto, locked heading h and exactly one burst of two 'auto' keystrokes.
C4_AutoSelectorAsStated ==
    ( /\ WriteHandled(PGN_RM_PILOT_MODE)
      /\ prev.mode = PM_STBY
      /\ HasSelector(Params, {64})
      /\ ~HasButton(Params) )
    => ( /\ currentMode = PM_AUTO
         /\ locked_hdg_deg = hdg_deg_now
         /\ AutoBurst(st_tx) )

\* C4 (amended): the same, for parameters that contain no selector of another mode.
C4_AutoSelectorFromStandby ==
    ( /\ WriteHandled(PGN_RM_PILOT_MODE)
      /\ prev.mode = PM_STBY
      /\ HasSelector(Params, {64})
      /\ ~HasSelector(Params, {0, 1, 128})
      /\ ~HasButton(Params) )
    => ( /\ currentMode = PM_AUTO
         /\ locked_hdg_deg = hdg_deg_now
         /\ AutoBurst(st_tx) )

\* C4 witness: the Auto selector, reassembled from a fast packet, engaged Auto
\* from Standby at a heading other than the initial 0
C4_Witness ==
    /\ WriteHandled(PGN_RM_PILOT_MODE)
    /\ fed # << >>
    /\ prev.mode = PM_STBY
    /\ Params = << 4, 4, 64 >>
    /\ currentMode = PM_AUTO
    /\ hdg_deg_now > 0
    /\ locked_hdg_deg = hdg_deg_now

C6_LockedHeadingWriteOnlySetsHeading ==
    ( /\ WriteHandled(PGN_RM_LOCKED_HEADING)
      /\ Len(Params) = 3
      /\ Params[1] = 6 )
    => ( /\ currentMode = prev.mode
         /\ headingRef = REF_MAG
         /\ st_tx = << >>
         /\ locked_hdg_deg = norm360(rad1e4_to_deg(Params[2] + 256 * Params[3])) )

\* C7: in every reachable state, in Standby the locked heading is undefined (NaN).
C7_StandbyHasNoLockedHeading == currentMode = PM_STBY => locked_hdg_deg = NaN

\* what a command does to the pilot, as seen from outside
Outcome(R) == << R.currentMode, R.headingRef, R.locked_hdg_deg, R.st_tx, R.n2k_tx >>

\* C8: from every pilot state, also one already in mode M, the selector for M and
\* the button code for M give the same mode, heading reference, locked heading,
\* keystrokes and mode-status messages.
C8_SelectorAndButtonAgree ==
    \A code \in ModeCodes :
        Outcome(handle_126208_full(Machine,
                    Cmd(FUNC_SINGLE, PGN_RM_PILOT_MODE, << 4, 4, code >>), millis))
        = Outcome(handle_126208_full(Machine,
                    Cmd(FUNC_SINGLE, PGN_RM_PILOT_MODE, << 6, code, 255 >>), millis))

\* the keystroke datagram of a code and the burst of two that one press sends
Keystroke(code) == << 134, ST_SENDER_NIB * 16 + 1, code, 255 - code >>

Burst(code) == << Keystroke(code), Keystroke(code) >>

\* C16: a mode change to Standby emits the 'standby' keystroke as a burst of two
\* datagrams, a mode change to Auto or Track the 'auto' burst, and a mode change
\* to Wind no SeaTalk datagram at all.
C16_KeystrokesFollowTable ==
    \A k \in 1..Len(steps) :
        steps[k].to # steps[k].from
        => /\ steps[k].to = PM_STBY => steps[k].st = Burst(ST_CODE_STANDBY)
           /\ steps[k].to \in {PM_AUTO, PM_TRACK} => steps[k].st = Burst(ST_CODE_AUTO)
           /\ steps[k].to = PM_WIND => steps[k].st = << >>

\* C16 witness: a selector took the pilot from Auto to Wind and nothing was
\* written to the SeaTalk line in the whole event
C16_Witness ==
    /\ Len(steps) = 1
    /\ steps[1].kind = "selector"
    /\ steps[1].from = PM_AUTO
    /\ steps[1].to = PM_WIND
    /\ st_tx = << >>

\* the keystroke code of a nudge button: +1, -1, +10, -10 degrees
NudgeKey(code) ==
    CASE code = 81 -> 7
      [] code = 127 -> 5
      [] code = 209 -> 8
      [] code = 80 -> 6

IsModeStatus(f, m) ==
    /\ f.extd = 1
    /\ extractPGN(f.identifier) = PGN_RM_PILOT_MODE
    /\ f.data_length_code = 8
    /\ f.data[3] + 256 * f.data[4] = rmModeField2(m)
    /\ f.data[7] = rmModeDataByte(m)

\* the mode-status frames among the frames sent
ModeStatusSent == SelectSeq(n2k_tx, LAMBDA f : extractPGN(f.identifier) = PGN_RM_PILOT_MODE)

\* C18: whenever processing a command changes the pilot mode, a mode-status
\* message (PGN 65379) that encodes the new mode is transmitted before the next
\* frame is processed: after every trigger that changes the mode, and the last
\* one sent in the event encodes the mode the event ends in.
C18_ModeChangeSendsStatus ==
    /\ \A k \in 1..Len(steps) :
          steps[k].to # steps[k].from
          => /\ Len(steps[k].tx) = 1
             /\ IsModeStatus(steps[k].tx[1], steps[k].to)
    /\ currentMode # prev.mode
       => /\ ModeStatusSent # << >>
          /\ IsModeStatus(ModeStatusSent[Len(ModeStatusSent)], currentMode)

\* C18 witness: a fast-packet command changed the mode from Standby to Track and
\* the status of Track went out
C18_Witness ==
    /\ fed # << >>
    /\ prev.mode = PM_STBY
    /\ currentMode = PM_TRACK
    /\ Len(n2k_tx) = 1
    /\ n2k_tx[1].data[7] = 128

----------------------------------------------------------------------------
\* Properties of the identifier codec (checked under SpecId)

\* the fields of a 29-bit identifier
IdPriority(id) == (id \div 67108864) % 8

IdSource(id) == id % 256

\* destination of a PDU1 identifier, broadcast (255) for PDU2
IdDestination(id) ==
    IF (id \div 65536) % 256 < 240 THEN (id \div 256) % 256 ELSE 255

IsPDU1(pgn) == (pgn \div 256) % 256 < 240

C15_PriorityClamped == (id_in.set /\ id_in.prio > 7) => IdPriority(id_out) = 7

----------------------------------------------------------------------------
\* Properties of the fast-packet loop (checked under SpecFP)

FpAllFed == fp_frames # << >> /\ fp_pos = Len(fp_frames)

\* C10 as stated: for payloads of 9, 50 and 223 bytes, the frames of
\* n2k_send_fast fed in order to feed_126208 give back the payload exactly.
C10_RoundTripAsStated == FpAllFed => fp_out = << fp_payload >>

\* C10 (amended): the frames of n2k_send_fast fed in order to feed_126208 give
\* back the payload exactly, once and after the last frame, for payloads of 9 and
\* 50 bytes (any length up to the 120-byte buffer); a payload of 223 bytes is
\* longer than the buffer and nothing is handed over.
C10_RoundTripWithinBuffer ==
    /\ ~FpAllFed => fp_out = << >>
    /\ (FpAllFed /\ Len(fp_payload) <= GRP_BUF_SIZE) => fp_out = << fp_payload >>
    /\ (FpAllFed /\ Len(fp_payload) > GRP_BUF_SIZE) => fp_out = << >>

\* C10 witness: a 50-byte payload came back after its 8 frames, under sequence id 7
C10_Witness ==
    /\ FpAllFed
    /\ Len(fp_payload) = 50
    /\ Len(fp_frames) = 8
    /\ fp_frames[1].data[1] = 224
    /\ fp_out = << fp_payload >>

----------------------------------------------------------------------------
\* Properties of the fast-packet sender (checked under SpecSend)

\* the payload bytes that frame k (1-based) carries: 6 in the first, 7 in the others
SendSlice(k) ==
    IF k = 1 THEN SubSeq(fp_payload, 1, Min2(6, Len(fp_payload)))
    ELSE SubSeq(fp_payload, 7 * (k - 1), Min2(7 * (k - 1) + 6, Len(fp_payload)))

\* the frames as a run of frames from the bridge's address
SendRun == [k \in 1..Len(fp_frames) |-> [sa |-> SA, d |-> fp_frames[k].data, n |-> 8]]

\* C11: for every payload of 1..223 bytes n2k_send_fast emits a first frame
\* [seq<<5 | 0, total length, first 6 payload bytes], then frames
\* [seq<<5 | index, next 7 payload bytes] with indices 1, 2, 3, ... up to at most
\* 31; every frame has 8 bytes, the unused trailing ones 0xFF, and the slices
\* concatenated in frame order are the payload.
C11_SendFastLayout ==
    fp_frames # << >> =>
        LET n == Len(fp_payload)
            seq == fp_frames[1].data[1] \div 32
        IN  /\ n \in SendLens
            /\ seq \in 0..7
            /\ Len(fp_frames) = (n + 7) \div 7
            /\ Len(fp_frames) - 1 <= 31
            /\ \A k \in 1..Len(fp_frames) :
                  /\ fp_frames[k].data_length_code = 8
                  /\ Len(fp_frames[k].data) = 8
                  /\ fp_frames[k].extd = 1
                  /\ fp_frames[k].identifier = fp_frames[1].identifier
            /\ fp_frames[1].data
                  = << seq * 32, n >> \o SendSlice(1) \o Fill(6 - Len(SendSlice(1)), 255)
            /\ \A k \in 2..Len(fp_frames) :
                  /\ SendSlice(k) # << >>
                  /\ fp_frames[k].data
                        = << seq * 32 + (k - 1) >> \o SendSlice(k)
                          \o Fill(7 - Len(SendSlice(k)), 255)
            /\ RunPayload(SendRun) = fp_payload

\* C11 witness: a 223-byte payload left as 32 frames, the last with index 31 and
\* its 7 bytes all payload
C11_Witness ==
    /\ Len(fp_payload) = 223
    /\ Len(fp_frames) = 32
    /\ fp_frames[32].data[1] % 32 = 31
    /\ SubSeq(fp_frames[32].data, 2, 8) = SubSeq(fp_payload, 217, 223)


----------------------------------------------------------------------------
\* Telemetry reception

TelePgns == {PGN_VESSEL_HEAD, PGN_WIND, PGN_STW, PGN_COGSOG, PGN_XTE, PGN_NAVDATA,
             PGN_ROUTE_WP}

RxPgn == extractPGN(rx[1].identifier)

TeleRx == rx # << >> /\ rx[1].extd = 1 /\ RxPgn \in TelePgns

\* positions in Telemetry of the fields a telemetry PGN carries
TeleFields(pgn) ==
    CASE pgn = PGN_VESSEL_HEAD -> {1}
      [] pgn = PGN_WIND -> {2, 3}
      [] pgn = PGN_STW -> {4}
      [] pgn = PGN_COGSOG -> {5, 6}
      [] pgn = PGN_XTE -> {7}
      [] OTHER -> {}

\* C19: a received telemetry message (vessel heading, wind, speed through water,
\* COG/SOG, cross-track error, navigation data, route/waypoint) changes no
\* telemetry field but its own, leaves the mode, the heading reference, the
\* locked heading and the command reassembly buffer as they were, and writes
\* no keystroke (nor anything else) to SeaTalk.
C19_TelemetryOnlyUpdatesItsFields ==
    TeleRx =>
        /\ currentMode = prev.mode
        /\ headingRef = prev.ref
        /\ locked_hdg_deg = prev.locked
        /\ grp = prev.grp
        /\ st_tx = << >>
        /\ \A i \in 1..Len(Telemetry) :
              Telemetry[i] # prev.tele[i] => i \in TeleFields(RxPgn)

\* a wind message changed the wind angle and the wind speed while the pilot was
\* in Auto with a locked heading and a command assembly open
C19_Witness ==
    /\ TeleRx
    /\ RxPgn = PGN_WIND
    /\ awa_deg # prev.tele[2]
    /\ aws_kn # prev.tele[3]
    /\ currentMode = PM_AUTO
    /\ locked_hdg_deg # NaN
    /\ grp.active


----------------------------------------------------------------------------
\* Sequence ids of the transmitted fast-packet messages (checked under SpecBoot)

FastPgns == {PGN_PRODUCT_INFO, PGN_CONFIG_INFO, PGN_PGN_LIST, PGN_AP_STATUS}

\* f is the first frame of a fast-packet message
IsFastHead(f) == extractPGN(f.identifier) \in FastPgns /\ f.data[1] % 32 = 0

FastHeads == SelectSeq(n2k_tx, IsFastHead)

SeqIdOf(f) == f.data[1] \div 32

\* C12: any two fast-packet messages transmitted one after the other carry
\* sequence ids that differ by exactly 1 modulo 8.
C12_SequenceIdPerMessage ==
    \A i \in 1..(Len(FastHeads) - 1) :
        SeqIdOf(FastHeads[i + 1]) = (SeqIdOf(FastHeads[i]) + 1) % 8


----------------------------------------------------------------------------
\* Periodic transmissions (checked under SpecLoop)

\* a frame of this PGN was handed to twai_tx in the last pass of loop()
Sent(pgn) == \E i \in 1..Len(n2k_tx) : extractPGN(n2k_tx[i].identifier) = pgn

\* C20: whatever the commands and the pilot state, the heading-to-steer status
\* (127237), the heading (127250), the mode status (65379), the locked-heading
\* status (65360) and the heartbeat are each transmitted again and again.
C20_StatusSentForEver ==
    /\ []<>Sent(PGN_AP_STATUS)
    /\ []<>Sent(PGN_VESSEL_HEAD)
    /\ []<>Sent(PGN_RM_PILOT_MODE)
    /\ []<>Sent(PGN_RM_LOCKED_HEADING)
    /\ []<>(Sent(PGN_HEARTBEAT) \/ Sent(PGN_RM_KEYPAD_HEART))


IsListHead(f) == extractPGN(f.identifier) = PGN_PGN_LIST /\ f.data[1] % 32 = 0

\* all four identity and capability messages, the PGN list as its two lists
Announced ==
    /\ Sent(PGN_ADDR_CLAIM)
    /\ Sent(PGN_PRODUCT_INFO)
    /\ Sent(PGN_CONFIG_INFO)
    /\ Len(SelectSeq(n2k_tx, IsListHead)) = 2

\* C21: the address claim, the product information, the configuration
\* information and the two supported-PGN lists are transmitted at startup and
\* then again and again, whether or not a frame is received.
C21_AnnouncedAtStartupAndForEver == Announced /\ []<>Announced

\* a pass of loop() that received no frame made the announcement again
C21_Witness ==
    /\ Announced
    /\ rx = << >>
    /\ since["Announce"] = 0
    /\ currentMode = PM_STBY


----------------------------------------------------------------------------
\* ISO requests (checked under SpecIso)

\* the last frame received was an ISO request that names a PGN
IsoRx ==
    /\ rx # << >>
    /\ rx[1].extd = 1
    /\ extractPGN(rx[1].identifier) = PGN_ISO_REQUEST
    /\ rx[1].data_length_code >= 3

IsoTarget == rx[1].data[1] + 256 * rx[1].data[2] + 65536 * rx[1].data[3]

\* the eight bytes of the NAME, least significant first
NameBytes == [i \in 1..8 |-> NameByte(buildNAME, i - 1)]

\* C22: an ISO request for the address claim (60928) is answered with the NAME,
\* one for the product information (126996) with the product information, and
\* one for the supported PGNs (126464) with the transmit and the receive list.
C22_IsoRequestAnswered ==
    IsoRx =>
        /\ IsoTarget = PGN_ADDR_CLAIM =>
              \E i \in 1..Len(n2k_tx) :
                  /\ extractPGN(n2k_tx[i].identifier) = PGN_ADDR_CLAIM
                  /\ n2k_tx[i].data = NameBytes
        /\ IsoTarget = PGN_PRODUCT_INFO => Sent(PGN_PRODUCT_INFO)
        /\ IsoTarget = PGN_PGN_LIST => Len(SelectSeq(n2k_tx, IsListHead)) = 2


\* the PGNs handle_126208_request has a case for, and those of the receive switch
ServedPgns == {PGN_RM_PILOT_MODE, PGN_RM_LOCKED_HEADING, PGN_PRODUCT_INFO, PGN_ADDR_CLAIM}

SwitchPgns == {PGN_CMD_GROUP, PGN_ISO_REQUEST} \cup TelePgns

\* the target PGN of the one command handled in the last event
CallTarget == calls[1][2] + 256 * calls[1][3] + 65536 * calls[1][4]

\* the last frame received was a request for a PGN that is not served, a
\* write-command for a PGN that is not taken, a single selector or button
\* pattern with an unknown code, or a frame of a PGN outside the receive switch
Ignorable ==
    \/ IsoRx /\ IsoTarget \notin ServedPgns
    \/ /\ Len(calls) = 1
       /\ Len(calls[1]) >= 4
       /\ \/ calls[1][1] = 1 /\ CallTarget \notin ServedPgns
          \/ calls[1][1] # 1
             /\ CallTarget \notin {PGN_RM_PILOT_MODE, PGN_RM_LOCKED_HEADING}
          \/ /\ WriteHandled(PGN_RM_PILOT_MODE)
             /\ Len(Params) = 3
             /\ \/ Params[1] = 4 /\ Params[2] = 4 /\ Params[3] \notin ModeCodes
                \/ Params[1] = 6 /\ Params[2] \notin ModeCodes \cup NudgeCodes
    \/ rx # << >> /\ rx[1].extd = 1 /\ RxPgn \notin SwitchPgns

\* C23: an ISO request or read-request for a PGN that is not served, a frame of
\* an unsupported PGN, and a write-command with an unknown target PGN or an
\* unknown selector or button code transmit nothing on either bus and leave
\* mode, heading reference and locked heading unchanged.
C23_UnknownIsIgnored ==
    Ignorable =>
        /\ n2k_tx = << >>
        /\ st_tx = << >>
        /\ currentMode = prev.mode
        /\ headingRef = prev.ref
        /\ locked_hdg_deg = prev.locked

\* a read-request for the configuration information arrived in Auto with a
\* heading locked
C23_Witness ==
    /\ Len(calls) = 1
    /\ Len(calls[1]) >= 4
    /\ calls[1][1] = 1
    /\ CallTarget = PGN_CONFIG_INFO
    /\ currentMode = PM_AUTO
    /\ locked_hdg_deg # NaN


----------------------------------------------------------------------------
\* Encoders on their own (checked under SpecKey, SpecNav and SpecName)

\* bit k (0 the least significant) of the byte v
ByteBit(v, k) == (v \div (2 ^ k)) % 2

\* C24: every keystroke datagram written, for every code, has exactly four
\* bytes: 0x86, 0x21, the code, and the bitwise complement of the code.
C24_KeystrokeDatagram ==
    (fn_in # << >> /\ fn_in[1] = "st_press") =>
        /\ fn_out # << >>
        /\ \A k \in 1..Len(fn_out) :
              /\ Len(fn_out[k]) = 4
              /\ fn_out[k][1] = 134
              /\ fn_out[k][2] = 33
              /\ fn_out[k][3] = fn_in[2]
              /\ fn_out[k][4] \in 0..255
              /\ \A b \in 0..7 : ByteBit(fn_out[k][4], b) = 1 - ByteBit(fn_out[k][3], b)

\* the keystroke of the code 0xA5 was written
C24_Witness ==
    /\ fn_in = << "st_press", 165 >>
    /\ Len(fn_out) = 2
    /\ fn_out[1] = << 134, 33, 165, 90 >>


\* C25: every byte that leaves the pin is byte 0 of its datagram under ODD or a
\* later byte under EVEN, and whenever the parity setting changes no byte
\* written earlier is still in flight
C25_ParitySwitchedWhenDrained ==
    fn_in # << >> =>
        /\ \A i \in 1..Len(fn_out.wire) :
              fn_out.wire[i].parity = (IF fn_out.wire[i].idx = 1 THEN "ODD" ELSE "EVEN")
        /\ \A i \in 1..Len(fn_out.switches) : fn_out.switches[i] = 0

\* the first byte alone is always drained before the switch to EVEN
C25_FirstByteDrained ==
    (fn_in # << >> /\ fn_in[1] = "st_press") =>
        /\ Len(fn_out.switches) >= 2
        /\ fn_out.switches[Len(fn_out.switches)] = 0
        /\ fn_out.fifo = << >>


\* The navigation datagram read back by inverse arithmetic
IsNav == fn_in # << >> /\ fn_in[1] = "st_send_nav_0x85"
NavP == fn_out[1]
NavIn == [xte |-> fn_in[2], brg |-> fn_in[3], dist |-> fn_in[4], track |-> fn_in[5]]
Abs(v) == IF v < 0 THEN 0 - v ELSE v
nav_X == (NavP[2] % 16) * 256 + NavP[3]
nav_U == NavP[4] % 16
nav_WV == (NavP[5] % 16) * 16 + NavP[4] \div 16
nav_Y == NavP[7] \div 16
nav_F == NavP[7] % 16
nav_D == NavP[6] * 16 + nav_Y
nav_lt10 == ByteBit(nav_Y, 0) = 1
nav_right == ByteBit(nav_Y, 2) = 1
\* in 1/1000 nm
nav_dist == IF nav_lt10 THEN nav_D * 10 ELSE nav_D * 100
nav_half_degrees == nav_U * 180 + nav_WV

\* C26: a cross-track error up to 40.95 nm, a bearing in half degrees and a
\* distance up to 409.5 nm are read back from the nine bytes as they went in
C26_NavRoundTrip ==
    (IsNav /\ Abs(NavIn.xte) <= 40950 /\ NavIn.dist <= 409500) =>
        /\ Len(fn_out) = 1 /\ Len(NavP) = 9
        /\ nav_X * 10 = Abs(NavIn.xte)
        /\ nav_half_degrees = NavIn.brg
        /\ nav_dist = NavIn.dist
        /\ nav_F = (IF NavIn.track THEN 7 ELSE 5)

\* the part of C26 that holds: cross-track magnitude, bearing and track flag
C26_XteAndBearingRoundTrip ==
    (IsNav /\ Abs(NavIn.xte) <= 40950) =>
        /\ Len(fn_out) = 1 /\ Len(NavP) = 9
        /\ nav_X * 10 = Abs(NavIn.xte)
        /\ nav_half_degrees = NavIn.brg
        /\ nav_F = (IF NavIn.track THEN 7 ELSE 5)

\* C27: the steer-right bit is set exactly when the cross-track error is
\* negative and the scale bit exactly when the distance is below 10 nm
C27_FlagBitsFollowConditions ==
    IsNav =>
        /\ nav_right <=> NavIn.xte < 0
        /\ nav_lt10 <=> NavIn.dist < 10000

\* C28: magnitudes beyond the range encode 4095 and every field keeps its width
C28_NavClamped ==
    IsNav =>
        /\ Abs(NavIn.xte) > 40950 => nav_X = 4095
        /\ NavIn.dist > 409500 => nav_D = 4095 /\ NavP[5] \div 16 = 15
        /\ nav_X <= 4095 /\ nav_D <= 4095 /\ nav_WV <= 255 /\ nav_U <= 3
        /\ \A i \in 1..Len(NavP) : NavP[i] \in 0..255
        /\ NavP[1] = 133 /\ NavP[2] \div 16 = 6 /\ NavP[8] = 0 /\ NavP[9] = NavP[7]

C28_Witness ==
    /\ IsNav /\ NavIn.xte = 100000
    /\ NavP[2] = 111 /\ NavP[3] = 255

C28_WitnessDistance == IsNav /\ NavIn.dist = 1000000 /\ nav_D = 4095


\* The NAME read back
IsName == fn_in # << >> /\ fn_in[1] = "buildNAME"

RECURSIVE Unpack(_, _, _)
Unpack(nm, shift, width) ==
    IF width = 0 THEN 0 ELSE nm[shift] + 2 * Unpack(nm, shift + 1, width - 1)

NameRange(k) == NAME_LAYOUT[k].shift..(NAME_LAYOUT[k].shift + NAME_LAYOUT[k].width - 1)

\* the widths the fields are said to have
NameWidths ==
    [unique |-> 21, mfg |-> 11, dev_inst |-> 3, func_inst |-> 5, func |-> 8,
     dev_class |-> 7, sys_inst |-> 4, ind_gr |-> 3, aac |-> 1, one |-> 1]

\* C29: the fields of the NAME lie in pairwise disjoint bit ranges of the said
\* widths inside the 64 bits, and each range read back gives the field's value
C29_NamePacksLosslessly ==
    IsName =>
        /\ \A k \in 1..Len(NAME_LAYOUT) :
              /\ NAME_LAYOUT[k].width = NameWidths[NAME_LAYOUT[k].f]
              /\ NameRange(k) \subseteq 0..63
              /\ Unpack(fn_out, NAME_LAYOUT[k].shift, NAME_LAYOUT[k].width)
                    = fn_in[2][NAME_LAYOUT[k].f]
        /\ \A k, l \in 1..Len(NAME_LAYOUT) :
              k # l => NameRange(k) \cap NameRange(l) = {}

\* the configured NAME, C5 7A 63 E7 00 87 51 C0 as sent in the address claim
C29_Witness ==
    /\ IsName /\ fn_in[2] = N2K_NAME
    /\ fn_out = buildNAME
    /\ Unpack(fn_out, 21, 11) = N2K_MFG
    /\ Unpack(fn_out, 49, 7) = N2K_DEV_CLASS


\* The switch bank sketch
IsSwLoop == fn_in # << >> /\ fn_in[1] = "loop"
SwRx == fn_in[2]

\* the parameter group an identifier carries, data page bit included
IdPgn(id) ==
    LET pdu == (id \div 256) % 2 ^ 18
    IN  IF (pdu \div 256) % 256 >= 240 THEN pdu ELSE pdu - (pdu % 256)

IsSwControl ==
    /\ IsSwLoop /\ SwRx.extd = 1
    /\ IdPgn(SwRx.identifier) = PGN_SWITCH_CONTROL
    /\ SwRx.data_length_code = 8 /\ SwRx.data[1] = BANK_INSTANCE

IsSwStatus(f) ==
    /\ IdPgn(f.id) = PGN_SWITCH_STATUS
    /\ f.data[1] = BANK_INSTANCE /\ f.data[2] = fn_out.channelMask % 256

\* C30: an extended 127502 frame for bank 0 leaves channelMask at
\* (channelMask | setMask) & ~clearMask on the eight channels, and when that
\* changed the mask a 127501 status with the new mask is the answer
C30_SwitchControlApplied ==
    IsSwControl =>
        /\ fn_out.channelMask
              = MaskAndNot(MaskOr(fn_out.was, SwRx.data[2]), SwRx.data[6])
        /\ fn_out.channelMask # fn_out.was =>
              /\ fn_out.answered = 1
              /\ IsSwStatus(fn_out.tx[1])


\* The motor telemetry bridge
\* the steps at which a task reads or writes telem
TelemAccess ==
    [EV |-> {"V", "kW"}, N2K |-> {"STW"}, SAMPLE |-> {"push"}, OUTPUT |-> {"V", "kW"}]

\* a record some 0x1DB frame wrote, or the one setup() left
WrittenWhole(r) ==
    \/ r.V = 0 /\ r.kW = 0
    \/ \E f \in PwrFrames : r.V = f.rawV /\ r.kW = kW_of(f)

\* C31: a task that is about to read or write telem holds the mutex, and the
\* line the output task prints shows a record as one update left it
C31_TelemetryUnderMutex ==
    IsMotor =>
        /\ \A t \in MotorTasks :
              fn_out.pc[t] \in TelemAccess[t] => fn_out.mtx = t
        /\ fn_out.pc["OUTPUT"] = "done" => WrittenWhole(fn_out.seen)

\* the part of C31 that holds: taskEvRx writes telem only inside its take/give
C31_EvRxHoldsMutex ==
    IsMotor => (fn_out.pc["EV"] \in TelemAccess["EV"] => fn_out.mtx = "EV")

\* a printed line that mixes two updates
C31_TornLine == IsMotor => (fn_out.pc["OUTPUT"] = "done" => WrittenWhole(fn_out.seen))


\* C32: when the controller has gone bus-off, the driver is running again some
\* time later, with loop() and the senders doing nothing but their own work
C32_BusFaultRecovered ==
    [](IsBus /\ fn_out.state = "BUS_OFF" => <>(IsBus /\ fn_out.state = "RUNNING"))

\* once bus-off, always bus-off
C32_BusOffForEver ==
    [][IsBus /\ fn_out.state = "BUS_OFF" => fn_out'.state = "BUS_OFF"]_vars


\* The mode that a 65379 frame carries
ShowsMode(f, m) ==
    /\ f.data[3] = rmModeField2(m) % 256
    /\ f.data[4] = rmModeField2(m) \div 256
    /\ f.data[7] = rmModeDataByte(m)

\* C33: every 65379 frame handed to the driver carries the mode the pilot is in
C33_ModeStatusShowsCurrentMode ==
    \A i \in 1..Len(n2k_tx) :
        extractPGN(n2k_tx[i].identifier) = PGN_RM_PILOT_MODE
            => ShowsMode(n2k_tx[i], currentMode)

\* the part of C33 that holds: a 65379 frame is either the reply to a request,
\* eight bytes of 0xFF, or carries the mode the pilot is in
C33_ModeStatusOrBlank ==
    \A i \in 1..Len(n2k_tx) :
        extractPGN(n2k_tx[i].identifier) = PGN_RM_PILOT_MODE
            => \/ ShowsMode(n2k_tx[i], currentMode)
               \/ n2k_tx[i].data = [k \in 1..8 |-> 255]


\* the destination a PDU1 identifier carries
IdDst(id) == (id \div 256) % 256

ForOtherNode ==
    /\ rx # << >>
    /\ extractPGN(rx[1].identifier) = PGN_CMD_GROUP
    /\ IdDst(rx[1].identifier) \notin {SA, 255}

\* C34: a 126208 frame addressed to another node leaves the mode, the heading
\* reference and the locked heading as they were and presses no key
C34_OtherDestinationIgnored ==
    ForOtherNode =>
        /\ currentMode = prev.mode
        /\ headingRef = prev.ref
        /\ locked_hdg_deg = prev.locked
        /\ st_tx = << >>


\* C35: a locked heading that is defined lies in [0, 360) degrees
C35_LockedHeadingInRange ==
    locked_hdg_deg # NaN => (0 <= locked_hdg_deg /\ locked_hdg_deg < Deg360)

\* the part of C35 that holds: a locked heading written by a 65360 command
C35_WrittenHeadingInRange ==
    (\/ locked_hdg_deg = prev.locked
     \/ locked_hdg_deg = NaN
     \/ locked_hdg_deg = hdg_deg_now)
    \/ (0 <= locked_hdg_deg /\ locked_hdg_deg < Deg360)


\* C36: in the gateway, idToPGN(n2kId(prio, pgn, sa, da)) = pgn for every
\* priority and for PDU1 and PDU2 PGNs, and an ISO request for the address claim
\* sent to 0x23 or to all is answered with an address claim at every priority.
GwRx == IsGw /\ fn_in[1] = "gw-rx"

IsAddressClaim(f) ==
    /\ idToSA(f.id) = N2K_SA
    /\ (f.id \div 65536) % 256 = PGN_ISO_ADDRESS_CLAIM \div 256
    /\ f.data = [i \in 1..8 |-> NameByte(gw_buildNAME, i - 1)]

C36_IdRoundTripAndClaimAnswered ==
    GwRx =>
        /\ idToPGN(n2kId(fn_in[2], fn_in[3], fn_in[4], fn_in[5])) = fn_in[3]
        /\ (fn_in[3] = PGN_ISO_REQUEST /\ fn_in[5] \in {N2K_SA, N2K_BCAST}
            /\ fn_in[6] = << 0, 238, 0 >>
            => \E k \in 1..Len(fn_out.tx) : IsAddressClaim(fn_out.tx[k]))

\* What holds of the same frames: the source and the destination come back at
\* every priority, the PGN comes back for PDU2 PGNs at every priority and for
\* PDU1 PGNs at priority 0, and a request of priority 0 is answered
C36_IdRoundTripPriorityZero ==
    GwRx =>
        /\ idToDA(n2kId(fn_in[2], fn_in[3], fn_in[4], fn_in[5]))
           = (IF (fn_in[3] \div 256) % 256 >= 240 THEN fn_in[3] % 256 ELSE fn_in[5])
        /\ idToSA(n2kId(fn_in[2], fn_in[3], fn_in[4], fn_in[5])) = fn_in[4]
        /\ ((fn_in[3] \div 256) % 256 >= 240 \/ fn_in[2] = 0
            => idToPGN(n2kId(fn_in[2], fn_in[3], fn_in[4], fn_in[5])) = fn_in[3])
        /\ (fn_in[2] = 0 /\ fn_in[3] = PGN_ISO_REQUEST
            /\ fn_in[5] \in {N2K_SA, N2K_BCAST} /\ fn_in[6] = << 0, 238, 0 >>
            => \E k \in 1..Len(fn_out.tx) : IsAddressClaim(fn_out.tx[k]))

\* A request of priority 6 for the address claim, sent to the gateway, that
\* nothing answers
C36_RequestUnanswered ==
    ~(GwRx /\ fn_in[2] = N2K_PRIO /\ fn_in[3] = PGN_ISO_REQUEST /\ fn_in[5] = N2K_SA
      /\ fn_in[6] = << 0, 238, 0 >> /\ fn_out.tx = << >>)


\* C37: every address claim the switch bank sketch sends in one run, the one of
\* setup and each reply to an ISO request, carries the same NAME.
IsSwClaim(f) == pgn_from_id(f.id) = PGN_ADDR_CLAIM /\ src_from_id(f.id) = SRC_ADDR

IsSwitch == fn_in # << >> /\ fn_in[1] \in {"setup", "loop"}

C37_SameNameInEveryClaim ==
    IsSwitch =>
        \A k \in 1..Len(fn_out.tx) :
            IsSwClaim(fn_out.tx[k]) => fn_out.tx[k].data = fn_out.claimed

\* What holds: the claims differ in the 21 bits of the unique id only, which
\* are bits 43..63 of the NAME
C37_SameNameBelowUniqueId ==
    IsSwitch =>
        \A k \in 1..Len(fn_out.tx) :
            IsSwClaim(fn_out.tx[k]) =>
                /\ \A i \in 1..5 : fn_out.tx[k].data[i] = fn_out.claimed[i]
                /\ fn_out.tx[k].data[6] % 8 = fn_out.claimed[6] % 8

\* A reply to an ISO request whose NAME is not the one setup claimed
C37_NameChanged ==
    ~(IsSwLoop /\ fn_out.answered = 1 /\ IsSwClaim(fn_out.tx[1])
      /\ fn_out.tx[1].data # fn_out.claimed)


\* C38: every frame n2kFastPacketTransmit builds for a payload of more than 8
\* bytes follows the fast-packet layout (byte 0 = 3-bit sequence id above the
\* 5-bit frame index; frame 0 carries the length and 6 payload bytes, the later
\* frames 7 payload bytes in bytes 1..7), and no byte is written outside the 8
\* data bytes of a frame.
GwFpLong == IsGwFp /\ fn_in[1] = "n2kFastPacketTransmit" /\ Len(fn_in[3]) > 8

\* byte i of the payload, 0xFF after its end
GwFpByte(i) == IF i <= Len(fn_in[3]) THEN fn_in[3][i] ELSE 255

C38_FastPacketLayout ==
    GwFpLong =>
        /\ \E s \in 0..7 : \A k \in 1..Len(fn_out.tx) :
              fn_out.tx[k].data[1] = 32 * s + (k - 1)
        /\ fn_out.tx[1].data[2] = Len(fn_in[3])
        /\ \A j \in 1..6 : fn_out.tx[1].data[2 + j] = GwFpByte(j)
        /\ \A k \in 2..Len(fn_out.tx) : \A j \in 1..7 :
              fn_out.tx[k].data[1 + j] = GwFpByte(6 + 7 * (k - 2) + j)
        /\ \A k \in 1..Len(fn_out.tx) : fn_out.tx[k].outside = << >>

\* What the frames are: byte 0 is fp_seq & 0x1F in every frame, byte 1 the
\* length in frame 0 and the frame number after it, bytes 2..7 six payload
\* bytes; frame k takes the payload from 6 + 7(k - 1) on, so its seventh byte
\* lands outside the frame and is not sent
C38_SeqByteThenSixBytes ==
    GwFpLong =>
        /\ Len(fn_out.tx) = 1 + (Len(fn_in[3]) - 6 + 6) \div 7
        /\ fn_out.fp_seq = (fn_in[4] + 1) % 256
        /\ \A k \in 1..Len(fn_out.tx) :
              /\ fn_out.tx[k].data[1] = fn_in[4] % 32
              /\ fn_out.tx[k].data[2] = (IF k = 1 THEN Len(fn_in[3]) ELSE k - 1)
              /\ LET base == IF k = 1 THEN 0 ELSE 6 + 7 * (k - 2)
                 IN  /\ \A j \in 1..6 :
                           fn_out.tx[k].data[2 + j]
                              = (IF base + j <= Len(fn_in[3]) THEN fn_in[3][base + j] ELSE 0)
                     /\ fn_out.tx[k].outside
                           = (IF k > 1 /\ base + 7 <= Len(fn_in[3])
                              THEN << fn_in[3][base + 7] >> ELSE << >>)

\* The 26 bytes of the engine message: frame 1 with a byte written outside
C38_ByteOutside ==
    ~(GwFpLong /\ fn_in[2] = PGN_ENG_DYNAMIC /\ Len(fn_in[3]) = 26
      /\ Len(fn_out.tx) = 4 /\ Len(fn_out.tx[2].outside) = 1)


\* C39: updates of sw_state_bits by the N2K receive task (127502) and by the
\* WebSocket switch command at the same time are never lost: after both, the
\* word is the result of the two updates in one of the two orders, and the
\* last 127501 status sent shows that word.
RaceOver == IsRace /\ fn_out.pc = "done" /\ fn_out.rx = "done"

RaceCh == IF fn_in[3] >= 1 /\ fn_in[3] <= SW_CHANNELS THEN fn_in[3] ELSE 0

\* the word after the command alone, which an unknown channel leaves as it is
RaceWs(bits) == IF RaceCh = 0 THEN bits ELSE ws_apply(bits, RaceCh, fn_in[4])

StatusBits(f) == f.data[2] + 256 * f.data[3]

LastStatusShows(bits) ==
    fn_out.tx # << >> => StatusBits(fn_out.tx[Len(fn_out.tx)]) = bits

C39_NoLostUpdate ==
    RaceOver =>
        /\ fn_out.sw_state_bits \in {RaceWs(rx_apply(fn_in[2], fn_in[5])),
                                     rx_apply(RaceWs(fn_in[2]), fn_in[5])}
        /\ LastStatusShows(fn_out.sw_state_bits)

\* What holds: the same, when the frame was handled before the command read the
\* word or after the command ended
C39_NoLostUpdateOutside ==
    (RaceOver /\ ~fn_out.inside) =>
        /\ fn_out.sw_state_bits \in {RaceWs(rx_apply(fn_in[2], fn_in[5])),
                                     rx_apply(RaceWs(fn_in[2]), fn_in[5])}
        /\ LastStatusShows(fn_out.sw_state_bits)

\* Both done, and the bit the 127502 frame set is gone from the word
C39_UpdateLost ==
    ~(RaceOver /\ fn_in[2] = 0 /\ fn_in[3] = 1 /\ fn_in[4] = TRUE
      /\ fn_in[5] = << SW_BANK_INSTANCE, 2, 0, 0, 0, 0, 0, 0 >>
      /\ fn_out.sw_state_bits = 1)

====
